---------------------------- MODULE Spec2Model ----------------------------
(***************************************************************************)
(* State-machine model of the load-generation and aggregation scripts:     *)
(*   - PerformanceTester.test_concurrent_users / simulate_concurrent_user  *)
(*     (performance_test_suite.py), "session" mode;                        *)
(*   - SimplePerformanceTester.test_concurrent_load / test_endpoint        *)
(*     (simple_performance_test.py), "blast" mode;                         *)
(*   - LoadTester (load_test_100_users.py);                                *)
(*   - the nearest-rank percentile the three of them compute.              *)
(* One behaviour is one run of one script; `script` names it.              *)
(* Latencies are integers (milliseconds); a mean or a rate is an exact     *)
(* rational [num, den].                                                    *)
(***************************************************************************)
EXTENDS Integers, Sequences, FiniteSets, TLC

VARIABLES
    script,               \* which script this behaviour runs
    \* ---- PerformanceTester (performance_test_suite.py)
    suite_pc,             \* position of test_concurrent_users
    users,                \* user_id -> the simulate_concurrent_user task
    concurrency_results,  \* self.concurrency_results
    \* ---- SimplePerformanceTester (simple_performance_test.py)
    simple_pc,            \* position of test_concurrent_load
    tasks,                \* index -> the single_request task
    simple_results,       \* self.results['concurrent_load'] (<<>> until set)
    \* ---- PerformanceTester.test_api_endpoints
    metrics,              \* self.metrics
    \* ---- LoadTester (load_test_100_users.py)
    load_pc,              \* position of run_load_test
    auth,                 \* user index -> the register_and_login task
    tokens,               \* self.tokens
    sims,                 \* position in self.tokens -> the simulate_user task
    results,              \* self.results
    response_statuses,    \* the HTTP status behind each entry of response_times
    report,               \* what print_results printed (<<>> until it runs)
    \* ---- the percentile computation on its own
    latencies,            \* a latency list
    reported,             \* the percentiles reported for it, one entry per report
    \* ---- one session per virtual user, at the granularity of its awaits
    session_pc,           \* position of the coroutine that gathers the sessions
    sessions,             \* user_id -> the session coroutine
    \* ---- one run of a script's phases and its report file
    run_pc,               \* position of the run: running, saving, done, failed
    run_results,          \* the results the run holds in memory, in insertion order
    executed,             \* the phases that completed, in execution order
    report_file,          \* the report file (<<>> until it is written)
    \* ---- the recommendation generators
    rec_pc,               \* input, measured (cache tests only), done
    rec_input,            \* the results the generator is given
    recommendations,      \* the list it returns (<<>> until it has run)
    \* ---- the readiness gates: GameTester, run_verification, GameSpider
    gate_pc,              \* position of the script
    total_tests,          \* GameTester.total_tests
    passed_tests,         \* GameTester.passed_tests
    failed_tests,         \* GameTester.failed_tests
    test_results,         \* GameTester.test_results
    verified,             \* verification_test.results
    visited,              \* GameSpider.visited
    issues,               \* GameSpider.issues
    working_pages,        \* the local working_pages of test_frontend_pages
    cursor,               \* index of the loop the spider is in
    pending,              \* links of the current page not checked yet
    fetched,              \* the GET requests the spider sent: <<url, outcome>>
    logged,               \* the levels the spider logged for its checks
    exit_code,            \* the process exit code (<<>> while it runs)
    \* ---- secure_production_server.py
    users_db,             \* users_db: email -> user
    auth_sessions,        \* sessions: user id -> session
    game_state,           \* game_state
    workers,              \* thread -> the request it is serving
    now,                  \* the clock, in seconds
    issued,               \* the tokens login has returned
    revoked,              \* the tokens a user held when that user logged out
    answered,             \* the response the last step sent (<<>> if none)
    \* ---- websocket_server.py
    connected_clients,    \* connected_clients: the slots of the dict, in order
    game_rooms,           \* game_rooms: room name -> list of user ids
    handlers,             \* coroutine -> its position and locals
    closed,               \* the connections whose peer has gone
    ws_errors,            \* the exceptions broadcast_to_all has raised
    \* ---- server_monitoring_test.py
    health_pc,            \* the check check_system_health is at
    health_status,        \* the local health_status
    running_services      \* the local running_services

suiteVars  == <<suite_pc, users, concurrency_results>>
simpleVars == <<simple_pc, tasks, simple_results>>
loadVars   == <<load_pc, auth, tokens, sims, results, response_statuses, report>>
pctVars    == <<latencies, reported>>
sessionVars == <<session_pc, sessions>>
\* the variables of the models added after the batch scripts
runVars == <<run_pc, run_results, executed, report_file>>
recVars == <<rec_pc, rec_input, recommendations>>
gateVars == <<gate_pc, total_tests, passed_tests, failed_tests, test_results,
              verified, visited, issues, working_pages, cursor, pending,
              fetched, logged, exit_code>>
\* the models of the servers and gates, added last
serverVars == <<users_db, auth_sessions, game_state, workers, now, issued,
                revoked, answered>>
wsVars == <<connected_clients, game_rooms, handlers, closed, ws_errors>>
healthVars == <<health_pc, health_status, running_services>>
moreVars == <<gateVars, serverVars, wsVars, healthVars>>
laterVars == <<sessionVars, runVars, recVars, moreVars>>
vars == <<script, suiteVars, simpleVars, metrics, loadVars, pctVars, laterVars>>

\* what the actions of one script leave alone
NotSuite  == <<simpleVars, metrics, loadVars, pctVars, laterVars>>
NotSimple == <<suiteVars, metrics, loadVars, pctVars, laterVars>>
NotApi    == <<suiteVars, simpleVars, loadVars, pctVars, laterVars>>
NotLoad   == <<suiteVars, simpleVars, metrics, pctVars, laterVars>>
NotPct    == <<suiteVars, simpleVars, metrics, loadVars, laterVars>>
\* the batch scripts, left alone by the models added after them
batchVars == <<suiteVars, simpleVars, metrics, loadVars, pctVars>>
NotSession == <<batchVars, runVars, recVars, moreVars>>
NotRun == <<batchVars, sessionVars, recVars, moreVars>>
NotRec == <<batchVars, sessionVars, runVars, moreVars>>
earlierVars == <<batchVars, sessionVars, runVars, recVars>>
NotGate == <<earlierVars, serverVars, wsVars, healthVars>>
NotServer == <<earlierVars, gateVars, wsVars, healthVars>>
NotWs == <<earlierVars, gateVars, serverVars, healthVars>>
NotHealth == <<earlierVars, gateVars, serverVars, wsVars>>

-----------------------------------------------------------------------------
(* Bounds of the model *)

\* number of concurrent virtual users of one phase (an element of user_counts)
UserCount == 2
\* request cycles per virtual user (the source fixes 10; scaled for the model)
requests_per_user == 2
\* number of blast requests (concurrent_requests; the source defaults to 20)
ConcurrentRequests == 3
\* number of samples test_api_endpoints takes (the source: 5 per endpoint)
MaxMetrics == 3
\* LoadTester's num_users (the source runs 10, 50, 100, 200)
NumUsers == 2
\* requests of one simulate_user (the source fixes 10; scaled for the model)
CyclesPerUser == 2
\* longest latency list whose percentiles are computed on its own
MaxLen == 22
\* pages test_frontend_pages visits (the source lists 24)
SpiderPages == 2
\* the last second of the server's clock
MaxClock == 2
\* seconds a token lives (the source: one hour)
TokenLifetime == 2
\* processes one user can have started
MaxProcesses == 1
\* slots connected_clients ever uses (a CPython dict keeps the slot of a
\* deleted key until it is resized, which a dict of 5 slots or fewer is not)
MaxEntries == 3
\* times the members of one room are appended to
MaxJoins == 2

(* Program constants *)

\* the latency recorded for a request that raised
SENTINEL == 9999

-----------------------------------------------------------------------------
(* What the network can answer: <<status, elapsed ms>> *)

SuiteResponses == {<<200, 10>>, <<500, 20>>}
BlastResponses == {<<200, 10>>, <<200, 20>>, <<302, 10>>, <<500, 20>>}
\* elapsed time until a transport failure (connection refused, timeout)
FailureElapsed == {10}
\* wall-clock batch durations in seconds: end_time - start_time of two
\* time.time() readings, which may be equal
Durations == {0, 2}
\* duration of a LoadTester run in seconds: every simulated user sleeps at
\* least 0.1 s after each of its requests
LoadDurations == {2, 5}

-----------------------------------------------------------------------------
(* Exact rationals *)

Rat(n, d) == [num |-> n, den |-> d]
Zero == Rat(0, 1)
RatEq(a, b) == a.num * b.den = b.num * a.den
RatAdd(a, b) == Rat(a.num * b.den + b.num * a.den, a.den * b.den)

-----------------------------------------------------------------------------
(* List helpers, as Python computes them *)

RECURSIVE SumSeq(_)
SumSeq(s) == IF s = <<>> THEN 0 ELSE Head(s) + SumSeq(Tail(s))

RECURSIVE MinSeq(_)
MinSeq(s) ==
    IF Len(s) = 1 THEN s[1]
    ELSE LET m == MinSeq(Tail(s)) IN IF s[1] <= m THEN s[1] ELSE m

RECURSIVE MaxSeq(_)
MaxSeq(s) ==
    IF Len(s) = 1 THEN s[1]
    ELSE LET m == MaxSeq(Tail(s)) IN IF s[1] >= m THEN s[1] ELSE m

RECURSIVE Insert(_, _)
Insert(x, s) ==
    IF s = <<>> THEN <<x>>
    ELSE IF x < Head(s) THEN <<x>> \o s
    ELSE <<Head(s)>> \o Insert(x, Tail(s))

\* the list left in its arrival order
Unsorted(s) == s

\* sorted(s)
RECURSIVE Sorted(_)
Sorted(s) ==
    IF s = <<>> THEN <<>> ELSE Insert(s[Len(s)], Sorted(SubSeq(s, 1, Len(s) - 1)))

\* statistics.mean
Mean(s) == Rat(SumSeq(s), Len(s))

\* int(0.95 * n), int(n * 0.99): pct is 95 or 99
PercentileIndex(pct, n) == (pct * n) \div 100

\* sorted(times)[int(p * len(times))], 0 for an empty list (0-based index)
Percentile(times, pct) ==
    IF times = <<>> THEN 0
    ELSE Sorted(times)[PercentileIndex(pct, Len(times)) + 1]

-----------------------------------------------------------------------------
(* PerformanceTester: simulate_concurrent_user, one task per user_id *)

UserIds == 0 .. (UserCount - 1)

NoToken == "None"

\* a task that test_concurrent_users has created and gather has not started
NewUser == [pc |-> "created", token |-> NoToken, response_times |-> <<>>,
            statuses |-> <<>>]

\* the frame of a task that raised is gone: its locals are not observable
RaisedUser == [pc |-> "raised", token |-> NoToken, response_times |-> <<>>,
               statuses |-> <<>>]

\* outcomes of POST /api/register: only a 200 whose body holds a token
\* yields one; another status, a body without token and an exception do not
RegisterOutcomes == {"token", "no_token", "rejected", "error"}

TokenOf(outcome, u) == IF outcome = "token" THEN "tok" ELSE NoToken

\* for _ in range(requests_per_user): the loop is over after the last append
AfterCycle(times) == IF Len(times) = requests_per_user THEN "returned" ELSE "requests"

\* the register step: the session goes on to the request loop whatever the
\* outcome (token = None on every failure)
Register(u) ==
    /\ script = "suite"
    /\ users[u].pc = "register"
    /\ \E o \in RegisterOutcomes :
          users' = [users EXCEPT ![u].pc = AfterCycle(<<>>),
                                 ![u].token = TokenOf(o, u)]
    /\ UNCHANGED <<script, suite_pc, concurrency_results, NotSuite>>

\* one loop iteration whose request got a response: the elapsed time is
\* appended whatever the status (the status is never read)
RequestAnswered(u) ==
    /\ script = "suite"
    /\ users[u].pc = "requests"
    /\ \E r \in SuiteResponses :
          LET times == Append(users[u].response_times, r[2]) IN
          users' = [users EXCEPT ![u].response_times = times,
                                 ![u].statuses = Append(@, r[1]),
                                 ![u].pc = AfterCycle(times)]
    /\ UNCHANGED <<script, suite_pc, concurrency_results, NotSuite>>

\* one loop iteration whose request raised: the sentinel is appended
RequestFailed(u) ==
    /\ script = "suite"
    /\ users[u].pc = "requests"
    /\ LET times == Append(users[u].response_times, SENTINEL) IN
       users' = [users EXCEPT ![u].response_times = times,
                              ![u].statuses = Append(@, 0),
                              ![u].pc = AfterCycle(times)]
    /\ UNCHANGED <<script, suite_pc, concurrency_results, NotSuite>>

\* an exception outside the loop's try (raised in the pacing sleep): the task
\* ends with the exception and its response_times list is lost
UserRaises(u) ==
    /\ script = "suite"
    /\ users[u].pc = "requests"
    /\ users' = [users EXCEPT ![u] = RaisedUser]
    /\ UNCHANGED <<script, suite_pc, concurrency_results, NotSuite>>

-----------------------------------------------------------------------------
(* PerformanceTester.test_concurrent_users: one phase (one user_count) *)

\* tasks = [simulate_concurrent_user(...) for user_id in range(user_count)]
\* and the await of asyncio.gather starts them
LaunchUsers ==
    /\ script = "suite"
    /\ suite_pc = "idle"
    /\ suite_pc' = "gathering"
    /\ users' = [u \in UserIds |-> [NewUser EXCEPT !.pc = "register"]]
    /\ UNCHANGED <<script, concurrency_results, NotSuite>>

\* gather as without return_exceptions: the first exception ends the wait
GatherReadyFirstException(ts) ==
    \/ \E u \in DOMAIN ts : ts[u].pc = "raised"
    \/ \A u \in DOMAIN ts : ts[u].pc = "returned"

\* asyncio.gather(*tasks, return_exceptions=True) returns once every task
\* has returned or raised
GatherReady(ts) == \A u \in DOMAIN ts : ts[u].pc \in {"returned", "raised"}

\* the list gather returns, in task order: the task's list or its exception
GatherResults(ts) ==
    [i \in 1 .. UserCount |->
        [exception |-> ts[i - 1].pc = "raised", value |-> ts[i - 1].response_times]]

IsSuccess(rt) == rt < SENTINEL
IsFailure(rt) == ~(rt < SENTINEL)

\* a raised task counted as one failed request
ExceptionPenaltyOne(rpu) == 1

\* failed_requests += requests_per_user, for a task that raised
ExceptionPenalty(rpu) == rpu

\* the loop leaving at the first exception it meets
RECURSIVE ProcessResultsBreak(_, _)
ProcessResultsBreak(gathered, rpu) ==
    IF gathered = <<>>
    THEN [all_response_times |-> <<>>, successful_requests |-> 0, failed_requests |-> 0]
    ELSE LET first == Head(gathered) IN
         IF first.exception
         THEN [all_response_times |-> <<>>, successful_requests |-> 0,
               failed_requests |-> ExceptionPenalty(rpu)]
         ELSE LET rest == ProcessResultsBreak(Tail(gathered), rpu) IN
              [all_response_times |-> first.value \o rest.all_response_times,
               successful_requests |->
                   Len(SelectSeq(first.value, IsSuccess)) + rest.successful_requests,
               failed_requests |->
                   Len(SelectSeq(first.value, IsFailure)) + rest.failed_requests]

\* the "Process results" loop
RECURSIVE ProcessResults(_, _)
ProcessResults(gathered, rpu) ==
    IF gathered = <<>>
    THEN [all_response_times |-> <<>>, successful_requests |-> 0, failed_requests |-> 0]
    ELSE LET n    == Len(gathered)
             acc  == ProcessResults(SubSeq(gathered, 1, n - 1), rpu)
             last == gathered[n]
         IN  IF last.exception
             THEN [acc EXCEPT !.failed_requests = @ + ExceptionPenalty(rpu)]
             ELSE [all_response_times |-> acc.all_response_times \o last.value,
                   successful_requests |->
                       acc.successful_requests + Len(SelectSeq(last.value, IsSuccess)),
                   failed_requests |->
                       acc.failed_requests + Len(SelectSeq(last.value, IsFailure))]

\* the "Calculate metrics" block and the ConcurrencyTestResult it builds
ConcurrencyTestResult(user_count, rpu, gathered, duration) ==
    LET total_requests == user_count * rpu
        p    == ProcessResults(gathered, rpu)
        all  == p.all_response_times
        good == SelectSeq(all, IsSuccess)
    IN  [concurrent_users     |-> user_count,
         total_requests       |-> total_requests,
         successful_requests  |-> p.successful_requests,
         failed_requests      |-> p.failed_requests,
         avg_response_time_ms |-> IF all # <<>> THEN Mean(all) ELSE Zero,
         min_response_time_ms |-> IF all # <<>> THEN MinSeq(all) ELSE 0,
         max_response_time_ms |->
             IF all # <<>> THEN (IF good # <<>> THEN MaxSeq(good) ELSE 0) ELSE 0,
         p95_response_time_ms |-> IF all # <<>> THEN Percentile(good, 95) ELSE 0,
         throughput_rps       |->
             IF duration > 0 THEN Rat(p.successful_requests, duration) ELSE Zero,
         error_rate_percent   |->
             IF total_requests > 0 THEN Rat(p.failed_requests * 100, total_requests)
             ELSE Zero]

\* gather returns, the batch is timed, aggregated and appended
GatherAndAggregate ==
    /\ script = "suite"
    /\ suite_pc = "gathering"
    /\ GatherReady(users)
    /\ \E duration \in Durations :
          concurrency_results' =
              Append(concurrency_results,
                     ConcurrencyTestResult(UserCount, requests_per_user,
                                           GatherResults(users), duration))
    /\ suite_pc' = "aggregated"
    /\ UNCHANGED <<script, users, NotSuite>>

-----------------------------------------------------------------------------
(* SimplePerformanceTester.test_endpoint: the sampler of blast mode *)

\* the dict returned after a response was read
SampleOfResponse(status, elapsed) ==
    [response_time_ms |-> elapsed, status_code |-> status,
     success |-> (200 <= status /\ status < 300), error |-> FALSE]

\* the dict returned by the except branch: the elapsed time is measured
SampleOfException(elapsed) ==
    [response_time_ms |-> elapsed, status_code |-> 0,
     success |-> FALSE, error |-> TRUE]

TaskIds == 1 .. ConcurrentRequests

\* tasks = [single_request() for _ in range(concurrent_requests)] and the
\* await of asyncio.gather starts them
LaunchRequests ==
    /\ script = "simple"
    /\ simple_pc = "idle"
    /\ simple_pc' = "gathering"
    /\ tasks' = [t \in TaskIds |-> [pc |-> "requesting", result |-> <<>>]]
    /\ UNCHANGED <<script, simple_results, NotSimple>>

\* single_request: the GET /health of task t is answered
EndpointAnswered(t) ==
    /\ script = "simple"
    /\ tasks[t].pc = "requesting"
    /\ \E r \in BlastResponses :
          tasks' = [tasks EXCEPT ![t] =
                      [pc |-> "returned", result |-> <<SampleOfResponse(r[1], r[2])>>]]
    /\ UNCHANGED <<script, simple_pc, simple_results, NotSimple>>

\* single_request: the GET /health of task t raises (refused, timeout)
EndpointFailed(t) ==
    /\ script = "simple"
    /\ tasks[t].pc = "requesting"
    /\ \E e \in FailureElapsed :
          tasks' = [tasks EXCEPT ![t] =
                      [pc |-> "returned", result |-> <<SampleOfException(e)>>]]
    /\ UNCHANGED <<script, simple_pc, simple_results, NotSimple>>

-----------------------------------------------------------------------------
(* SimplePerformanceTester.test_concurrent_load *)

BlastResults(ts) ==
    [t \in TaskIds |->
        [exception |-> ts[t].pc = "raised",
         value |-> IF ts[t].result = <<>> THEN SampleOfException(0) ELSE ts[t].result[1]]]

IsSuccessfulResult(r) == ~r.exception /\ r.value.success
IsFailedResult(r) == r.exception \/ (~r.exception /\ ~r.value.success)

\* the summary dict stored in self.results['concurrent_load']
LoadSummary(gathered, total_time) ==
    LET successful_results == SelectSeq(gathered, IsSuccessfulResult)
        failed_results     == SelectSeq(gathered, IsFailedResult)
        response_times     ==
            [i \in 1 .. Len(successful_results) |->
                successful_results[i].value.response_time_ms]
    IN  [concurrent_requests  |-> Len(gathered),
         total_time_seconds   |-> total_time,
         successful_requests  |-> Len(successful_results),
         failed_requests      |-> Len(failed_results),
         requests_per_second  |->
             IF total_time > 0 THEN Rat(Len(successful_results), total_time) ELSE Zero,
         avg_response_time_ms |->
             IF response_times # <<>> THEN Mean(response_times) ELSE Zero,
         min_response_time_ms |->
             IF response_times # <<>> THEN MinSeq(response_times) ELSE 0,
         max_response_time_ms |->
             IF response_times # <<>> THEN MaxSeq(response_times) ELSE 0,
         p95_response_time_ms |-> Percentile(response_times, 95)]

\* gather returns, the batch is timed and the summary stored
GatherAndSummarize ==
    /\ script = "simple"
    /\ simple_pc = "gathering"
    /\ GatherReady(tasks)
    /\ \E total_time \in Durations :
          simple_results' = <<LoadSummary(BlastResults(tasks), total_time)>>
    /\ simple_pc' = "aggregated"
    /\ UNCHANGED <<script, tasks, NotSimple>>

-----------------------------------------------------------------------------
(* PerformanceTester.measure_endpoint_performance, called by test_api_endpoints *)

\* the PerformanceMetrics returned after a response was read
MetricOfResponse(status, elapsed) ==
    [response_time_ms |-> elapsed, status_code |-> status, raised |-> FALSE]

\* the PerformanceMetrics returned by the except branch (raised is not a
\* field of the dataclass: it records which branch built the sample)
MetricOfException(elapsed) ==
    [response_time_ms |-> SENTINEL, status_code |-> 0, raised |-> TRUE]

\* metric = await self.measure_endpoint_performance(...); self.metrics.append(metric)
MeasureAnswered ==
    /\ script = "api"
    /\ Len(metrics) < MaxMetrics
    /\ \E r \in BlastResponses : metrics' = Append(metrics, MetricOfResponse(r[1], r[2]))
    /\ UNCHANGED <<script, NotApi>>

MeasureFailed ==
    /\ script = "api"
    /\ Len(metrics) < MaxMetrics
    /\ \E e \in FailureElapsed : metrics' = Append(metrics, MetricOfException(e))
    /\ UNCHANGED <<script, NotApi>>

-----------------------------------------------------------------------------
(* LoadTester.register_and_login, one task per user index *)

LoadUserIds == 0 .. (NumUsers - 1)

\* a token is <<user index>>; <<>> is None
TokenFor(u) == <<u>>
None == <<>>

\* await session.post(/api/login): a 200 whose body has success returns
\* data.get("token"), which may be None; anything else (another status, no
\* success, an exception) goes on to register
LoginOutcomes == {"token", "no_token", "fail"}

FirstLogin(u) ==
    /\ script = "load"
    /\ auth[u].pc = "login"
    /\ \E o \in LoginOutcomes :
          auth' = [auth EXCEPT ![u] =
                     CASE o = "token"    -> [pc |-> "returned", token |-> TokenFor(u)]
                       [] o = "no_token" -> [pc |-> "returned", token |-> None]
                       [] OTHER          -> [pc |-> "register", token |-> None]]
    /\ UNCHANGED <<script, load_pc, tokens, sims, results, response_statuses, report, NotLoad>>

\* await session.post(/api/register): only a 200 goes on to the second
\* login; another status falls off the function (None), an exception
\* returns None
RegisterUser(u) ==
    /\ script = "load"
    /\ auth[u].pc = "register"
    /\ \E o \in {"ok", "fail"} :
          auth' = [auth EXCEPT ![u] =
                     IF o = "ok" THEN [pc |-> "login_after", token |-> None]
                     ELSE [pc |-> "returned", token |-> None]]
    /\ UNCHANGED <<script, load_pc, tokens, sims, results, response_statuses, report, NotLoad>>

\* the login after a registration
SecondLogin(u) ==
    /\ script = "load"
    /\ auth[u].pc = "login_after"
    /\ \E o \in LoginOutcomes :
          auth' = [auth EXCEPT ![u] =
                     [pc |-> "returned",
                      token |-> IF o = "token" THEN TokenFor(u) ELSE None]]
    /\ UNCHANGED <<script, load_pc, tokens, sims, results, response_statuses, report, NotLoad>>

-----------------------------------------------------------------------------
(* LoadTester.run_load_test, phase 1 *)

\* auth_tasks.append(self.register_and_login(session, i)) and the await of
\* asyncio.gather starts them
StartAuth ==
    /\ script = "load"
    /\ load_pc = "idle"
    /\ load_pc' = "registering"
    /\ auth' = [u \in LoadUserIds |-> [pc |-> "login", token |-> None]]
    /\ UNCHANGED <<script, tokens, sims, results, response_statuses, report, NotLoad>>

\* [t for t in tokens if t is not None], in task order
RECURSIVE TokensFrom(_, _)
TokensFrom(as, n) ==
    IF n = 0 THEN <<>>
    ELSE TokensFrom(as, n - 1)
             \o (IF as[n - 1].token # None THEN <<as[n - 1].token>> ELSE <<>>)

\* user_tasks.append(self.simulate_user(session, i, token)); seen is the
\* value of results["requests"] when the task last suspended in a request
SimTasks(toks) ==
    [i \in 1 .. Len(toks) |->
        [pc |-> "requesting", token |-> toks[i], cycles |-> 0, seen |-> 0]]

\* gather returns the tokens; without any the run returns before phase 2
\* and before print_results
AuthDone ==
    /\ script = "load"
    /\ load_pc = "registering"
    /\ \A u \in LoadUserIds : auth[u].pc = "returned"
    /\ LET toks == TokensFrom(auth, NumUsers) IN
       /\ tokens' = toks
       /\ IF toks = <<>>
          THEN load_pc' = "returned_early" /\ UNCHANGED sims
          ELSE load_pc' = "simulating" /\ sims' = SimTasks(toks)
    /\ UNCHANGED <<script, auth, results, response_statuses, report, NotLoad>>

-----------------------------------------------------------------------------
(* LoadTester.simulate_user, one task per token *)

SimIds == DOMAIN sims

\* <<status, elapsed>> of a request of simulate_user
LoadResponses == {<<200, 1>>, <<500, 2>>}

\* for _ in range(10): the position after a counted request and its sleep
AfterRequest(cycles) == IF cycles = CyclesPerUser THEN "returned" ELSE "requesting"

\* inside "async with ... as resp": the elapsed time is appended, then the
\* status decides between successes and failures
SimAnswered(i) ==
    /\ script = "load"
    /\ sims[i].pc = "requesting"
    /\ \E r \in LoadResponses :
          /\ results' = [results EXCEPT
                            !.response_times = Append(@, r[2]),
                            !.successes = IF r[1] < 400 THEN @ + 1 ELSE @,
                            !.failures = IF r[1] < 400 THEN @ ELSE @ + 1]
          /\ response_statuses' = Append(response_statuses, r[1])
    /\ sims' = [sims EXCEPT ![i].pc = "releasing", ![i].seen = results.requests]
    /\ UNCHANGED <<script, load_pc, auth, tokens, report, NotLoad>>

\* an increment whose read was taken before the task suspended
RequestsAfterStale(current, seen) == seen + 1

\* self.results["requests"] += 1: read and written with no await between
RequestsAfter(current, seen) == current + 1

\* after the "async with" block: requests += 1, then the pacing sleep
SimCounted(i) ==
    /\ script = "load"
    /\ sims[i].pc = "releasing"
    /\ results' = [results EXCEPT !.requests = RequestsAfter(@, sims[i].seen)]
    /\ sims' = [sims EXCEPT ![i].cycles = @ + 1,
                            ![i].seen = 0,
                            ![i].pc = AfterRequest(sims[i].cycles + 1)]
    /\ UNCHANGED <<script, load_pc, auth, tokens, response_statuses, report, NotLoad>>

\* the except branch: failures, errors and requests, then the pacing sleep
SimFailed(i) ==
    /\ script = "load"
    /\ sims[i].pc = "requesting"
    /\ results' = [results EXCEPT !.failures = @ + 1,
                                  !.errors = Append(@, "error"),
                                  !.requests = @ + 1]
    /\ sims' = [sims EXCEPT ![i].cycles = @ + 1,
                            ![i].pc = AfterRequest(sims[i].cycles + 1)]
    /\ UNCHANGED <<script, load_pc, auth, tokens, response_statuses, report, NotLoad>>

-----------------------------------------------------------------------------
(* LoadTester.print_results *)

Max(a, b) == IF a >= b THEN a ELSE b

\* the figures print_results prints before it reaches the errors section
Printed(res, duration) ==
    [duration         |-> duration,
     total_requests   |-> res.requests,
     successful       |-> res.successes,
     failed           |-> res.failures,
     success_percent  |-> Rat(res.successes * 100, Max(1, res.requests)),
     failed_percent   |-> Rat(res.failures * 100, Max(1, res.requests)),
     requests_per_sec |-> Rat(res.requests, Max(1, duration)),
     has_times        |-> res.response_times # <<>>,
     p95              |-> Percentile(res.response_times, 95),
     p99              |-> Percentile(res.response_times, 99)]

\* set(self.results["errors"])[:5] raises TypeError: with a non-empty
\* errors list print_results ends there, before the assessment
PrintRaises(res) == res.errors # <<>>

\* phase 2's gather returns, end_time is taken and print_results runs
SimDoneAndPrint ==
    /\ script = "load"
    /\ load_pc = "simulating"
    /\ \A i \in SimIds : sims[i].pc = "returned"
    /\ \E duration \in LoadDurations : report' = <<Printed(results, duration)>>
    /\ load_pc' = IF PrintRaises(results) THEN "print_raised" ELSE "printed"
    /\ UNCHANGED <<script, auth, tokens, sims, results, response_statuses, NotLoad>>

-----------------------------------------------------------------------------
(* One virtual user's session at the granularity of its awaits:            *)
(* simulate_concurrent_user (script = "suite") and simulate_user           *)
(* (script = "load"). A session suspends at the register request, at each  *)
(* request of its loop and at each pacing sleep; between two of them it    *)
(* runs alone.                                                             *)

\* concurrent sessions of the batch
SessionUsers == 2
\* request cycles of one session: range(requests_per_user), range(10)
SessionCycles == 2

SessionIds == 0 .. (SessionUsers - 1)

\* dispatched: requests sent by the loop; completed: requests whose await
\* returned or raised; failed: those that raised (transport error, the 30 s
\* ClientTimeout); paced: pacing sleeps that have elapsed
NewSession == [pc |-> "created", dispatched |-> 0, completed |-> 0,
               failed |-> 0, paced |-> 0]

\* the frame of a session that raised is gone
RaisedSession == [NewSession EXCEPT !.pc = "raised"]

\* simulate_concurrent_user registers before its loop, simulate_user starts
\* with its loop
FirstStep == IF script = "suite" THEN "register" ELSE "loop"

\* a driver that sends its next request while the last one is pending
CanDispatchWhilePending(s) ==
    s.pc \in {"loop", "in_flight"} /\ s.dispatched < SessionCycles

\* the session is at the top of an iteration of its for loop
CanDispatch(s) == s.pc = "loop"

\* a loop that leaves one iteration early
AfterPaceShort(paced) == IF paced >= SessionCycles - 1 THEN "returned" ELSE "loop"

\* for _ in range(n): after the sleep of iteration `paced` the loop goes on
\* or the coroutine returns
AfterPace(paced) == IF paced = SessionCycles THEN "returned" ELSE "loop"

\* the tasks are created and the await of asyncio.gather starts them
StartSessions ==
    /\ script \in {"suite", "load"}
    /\ session_pc = "idle"
    /\ session_pc' = "gathering"
    /\ sessions' = [u \in SessionIds |-> [NewSession EXCEPT !.pc = FirstStep]]
    /\ UNCHANGED <<script, NotSession>>

\* POST /api/register is over, with a token or without (a response of any
\* status, or an exception caught by the bare except)
SessionRegistered(u) ==
    /\ sessions[u].pc = "register"
    /\ sessions' = [sessions EXCEPT ![u].pc = "loop"]
    /\ UNCHANGED <<script, session_pc, NotSession>>

\* async with session.request(...) / session.get(...) / session.post(...):
\* the request of the iteration is sent and the session suspends
Dispatch(u) ==
    /\ CanDispatch(sessions[u])
    /\ sessions' = [sessions EXCEPT ![u].pc = "in_flight",
                                    ![u].dispatched = @ + 1]
    /\ UNCHANGED <<script, session_pc, NotSession>>

\* the response was read: the iteration goes on to its sleep
Responded(u) ==
    /\ sessions[u].pc = "in_flight"
    /\ sessions' = [sessions EXCEPT ![u].pc = "sleeping",
                                    ![u].completed = @ + 1]
    /\ UNCHANGED <<script, session_pc, NotSession>>

\* the request raised (refused, reset, asyncio.TimeoutError after 30 s):
\* except Exception records it and the iteration goes on to its sleep
Excepted(u) ==
    /\ sessions[u].pc = "in_flight"
    /\ sessions' = [sessions EXCEPT ![u].pc = "sleeping",
                                    ![u].completed = @ + 1,
                                    ![u].failed = @ + 1]
    /\ UNCHANGED <<script, session_pc, NotSession>>

\* await asyncio.sleep(...) is over
Paced(u) ==
    /\ sessions[u].pc = "sleeping"
    /\ sessions' = [sessions EXCEPT ![u].paced = @ + 1,
                                    ![u].pc = AfterPace(sessions[u].paced + 1)]
    /\ UNCHANGED <<script, session_pc, NotSession>>

\* an exception outside the loop's try (raised in the pacing sleep) ends the
\* session coroutine
SessionRaises(u) ==
    /\ sessions[u].pc = "sleeping"
    /\ sessions' = [sessions EXCEPT ![u] = RaisedSession]
    /\ UNCHANGED <<script, session_pc, NotSession>>

\* asyncio.gather(*tasks, return_exceptions=True) returns
JoinSessions ==
    /\ session_pc = "gathering"
    /\ GatherReady(sessions)
    /\ session_pc' = "joined"
    /\ UNCHANGED <<script, sessions, NotSession>>

NoSessions == [u \in SessionIds |-> NewSession]

-----------------------------------------------------------------------------
(* One run of a script: its phases in order, what each stores, and the     *)
(* report file. SimplePerformanceTester.run_performance_test               *)
(* (script = "simple"), main of performance_test_suite.py ("suite"),       *)
(* DatabasePerformanceTester.run_comprehensive_test ("database") and       *)
(* ServerMonitoringTester.run_comprehensive_server_test ("monitor").       *)

\* a phase: the method called, where its result goes, how it is stored
\* ("set": dict[key] = result; "append": list.append(result); "drop": the
\* return value is not kept) and, for a load phase, its concurrency level
Phase(name, key, store, level) ==
    [name |-> name, key |-> key, store |-> store, level |-> level]

\* test_concurrent_load stores under the one key 'concurrent_load'; analysis
\* is the local that is dumped next to raw_results
SimplePhases ==
    << Phase("test_server_discovery", "server_discovery", "set", 0),
       Phase("test_basic_endpoints", "basic_endpoints", "set", 0),
       Phase("test_concurrent_load", "concurrent_load", "set", 5),
       Phase("test_concurrent_load", "concurrent_load", "set", 10),
       Phase("test_concurrent_load", "concurrent_load", "set", 20),
       Phase("analyze_results", "analysis", "set", 0) >>

\* test_concurrent_users appends one ConcurrencyTestResult per user_count;
\* the return values of the three later phases are not kept
SuitePhases ==
    << Phase("test_api_endpoints", "metrics", "append", 0),
       Phase("test_concurrent_users", "concurrency_results", "append", 10),
       Phase("test_concurrent_users", "concurrency_results", "append", 25),
       Phase("test_concurrent_users", "concurrency_results", "append", 50),
       Phase("test_concurrent_users", "concurrency_results", "append", 100),
       Phase("test_websocket_stability", "", "drop", 0),
       Phase("test_frontend_performance", "", "drop", 0),
       Phase("monitor_memory_usage", "", "drop", 0) >>

DatabasePhases ==
    << Phase("test_connection_performance", "connection_performance", "set", 0),
       Phase("test_basic_queries", "basic_queries", "set", 0),
       Phase("test_application_queries", "application_queries", "set", 0),
       Phase("test_concurrent_queries", "concurrent_10_connections", "set", 10),
       Phase("test_concurrent_queries", "concurrent_25_connections", "set", 25),
       Phase("test_concurrent_queries", "concurrent_50_connections", "set", 50),
       Phase("test_index_performance", "index_analysis", "set", 0),
       Phase("_generate_db_recommendations", "recommendations", "set", 0) >>

MonitorPhases ==
    << Phase("get_system_info", "system_info", "set", 0),
       Phase("check_system_health", "initial_health", "set", 0),
       Phase("get_process_information", "process_info", "set", 0),
       Phase("monitor_system_over_time", "monitoring_data", "set", 0),
       Phase("analyze_performance_patterns", "performance_analysis", "set", 0),
       Phase("check_system_health", "final_health", "set", 0),
       Phase("_generate_server_recommendations", "recommendations", "set", 0) >>

RunPhases ==
    CASE script = "simple"   -> SimplePhases
      [] script = "suite"    -> SuitePhases
      [] script = "database" -> DatabasePhases
      [] OTHER               -> MonitorPhases

\* a phase run in a threading.Thread: an exception in it ends the thread
\* and never reaches the run's except
ThreadPhases == {"monitor_memory_usage"}

\* the scripts whose report is written inside the try, after the phases
WritesInsideTry == {"simple", "suite"}

\* the failed requests a load phase may count
PhaseFailures(phase) == IF phase.level > 0 THEN {0, 1} ELSE {0}

Entry(key, level, failed) ==
    [key |-> key, level |-> level, failed_requests |-> failed]

\* list.append(value)
ListAppend(store, entry) == Append(store, entry)

\* dict[key] = value: a key already present keeps its place and gets the
\* new value
DictSet(store, entry) ==
    IF \E i \in 1 .. Len(store) : store[i].key = entry.key
    THEN [i \in 1 .. Len(store) |->
             IF store[i].key = entry.key THEN entry ELSE store[i]]
    ELSE Append(store, entry)

Stored(store, phase, entry) ==
    CASE phase.store = "set"    -> DictSet(store, entry)
      [] phase.store = "append" -> ListAppend(store, entry)
      [] OTHER                  -> store

\* the phase that runs next (1-based)
NextPhase == Len(executed) + 1

AfterPhase(i) == IF i = Len(RunPhases) THEN "saving" ELSE "running"

\* the phase returns and its result is stored
PhaseCompletes ==
    /\ script \in {"simple", "suite", "database", "monitor"}
    /\ run_pc = "running"
    /\ LET phase == RunPhases[NextPhase] IN
       \E failed \in PhaseFailures(phase) :
          LET entry == Entry(phase.key, phase.level, failed) IN
          /\ run_results' = Stored(run_results, phase, entry)
          /\ executed' = Append(executed, [entry EXCEPT !.key = phase.name])
    /\ run_pc' = AfterPhase(NextPhase)
    /\ UNCHANGED <<script, report_file, NotRun>>

\* the phase raises: except Exception of the run. run_performance_test
\* returns {'error': ...} and main calls sys.exit(1), both past the code
\* that writes the report; the other two set results['error'] and go on to
\* the "Save results" block after the try
PhaseRaises ==
    /\ script \in {"simple", "suite", "database", "monitor"}
    /\ run_pc = "running"
    /\ RunPhases[NextPhase].name \notin ThreadPhases
    /\ IF script \in WritesInsideTry
       THEN run_pc' = "failed" /\ UNCHANGED run_results
       ELSE /\ run_pc' = "saving"
            /\ run_results' = DictSet(run_results, Entry("error", 0, 0))
    /\ UNCHANGED <<script, executed, report_file, NotRun>>

\* with open(..., 'w') as f: json.dump(...)
SaveReport ==
    /\ script \in {"simple", "suite", "database", "monitor"}
    /\ run_pc = "saving"
    /\ report_file' = <<run_results>>
    /\ run_pc' = "done"
    /\ UNCHANGED <<script, run_results, executed, NotRun>>

-----------------------------------------------------------------------------
(* The recommendation generators. A recommendation is the dict the code    *)
(* appends, without its advice text: category, priority, the metric of its *)
(* issue line and, for an index recommendation, the table it names.        *)

Rec(category, priority, issue, subject) ==
    [category |-> category, priority |-> priority, issue |-> issue,
     subject |-> subject]

\* if cond: recommendations.append(rec)
When(cond, rec) == IF cond THEN <<rec>> ELSE <<>>

RatLess(a, b) == a.num * b.den < b.num * a.den
Whole(n) == Rat(n, 1)

RECURSIVE RatSum(_)
RatSum(s) == IF s = <<>> THEN Zero ELSE RatAdd(RatSum(Tail(s)), Head(s))

-----------------------------------------------------------------------------
(* SimplePerformanceTester.analyze_results *)

\* one summary of test_basic_endpoints: successes of its 3 tests and the
\* average latency of the successful ones
EndpointSummary(successes, avg) ==
    [success_rate |-> Rat(successes, 3), avg_response_time_ms |-> avg]

BasicEndpointLists ==
    { << EndpointSummary(3, 200) >>,
      << EndpointSummary(3, 1500) >>,
      << EndpointSummary(0, 0), EndpointSummary(3, 900), EndpointSummary(1, 1300) >>,
      << EndpointSummary(0, 0) >> }

\* the fields of self.results['concurrent_load'] that analyze_results
\* reads, for the phase of 20 requests
LoadSummaryInput(rps, successful, failed) ==
    [requests_per_second |-> rps, successful_requests |-> successful,
     failed_requests |-> failed]

LoadSummaries ==
    { LoadSummaryInput(Whole(40), 20, 0), LoadSummaryInput(Whole(5), 20, 0),
      LoadSummaryInput(Whole(36), 18, 2), LoadSummaryInput(Whole(4), 16, 4),
      LoadSummaryInput(Zero, 0, 20) }

\* the paths test_server_discovery found accessible
AccessibleSets == { {"/", "/health"}, {"/", "/health", "/admin"} }

security_sensitive_paths == {"/admin", "/secure-admin-ea9017d46e0fe963"}

AnalyzeInputs ==
    { [basic_endpoints |-> b, concurrent_load |-> l, accessible_endpoints |-> a] :
        b \in BasicEndpointLists, l \in LoadSummaries, a \in AccessibleSets }

IsWorking(e) == e.success_rate.num > 0

AvgTimesOf(endpoints) ==
    LET working == SelectSeq(endpoints, IsWorking) IN
    [i \in 1 .. Len(working) |-> working[i].avg_response_time_ms]

\* the rules of analyze_results, each with the condition the code tests
ResponseTimeHigh(res) ==
    LET avg_response_times == AvgTimesOf(res.basic_endpoints) IN
    /\ avg_response_times # <<>>
    /\ RatLess(Whole(1000), Mean(avg_response_times))

ThroughputLow(res) == RatLess(res.concurrent_load.requests_per_second, Whole(10))
HasFailedRequests(res) == res.concurrent_load.failed_requests > 0
SensitiveAccessible(res) == security_sensitive_paths \cap res.accessible_endpoints # {}

analyze_results(res) ==
       When(ResponseTimeHigh(res), Rec("Response Time", "HIGH", "average response time", ""))
    \o When(ThroughputLow(res), Rec("Throughput", "MEDIUM", "throughput", ""))
    \o When(HasFailedRequests(res), Rec("Reliability", "HIGH", "failed requests", ""))
    \o When(SensitiveAccessible(res), Rec("Security", "HIGH", "admin paths accessible", ""))

AnalyzeResults ==
    /\ script = "analyze_results"
    /\ rec_pc = "input"
    /\ recommendations' = analyze_results(rec_input)
    /\ rec_pc' = "done"
    /\ UNCHANGED <<script, rec_input, NotRec>>

-----------------------------------------------------------------------------
(* PerformanceTester.generate_performance_report *)

\* self.metrics grouped by endpoint
EndpointGroups ==
    { << <<MetricOfResponse(200, 200), MetricOfResponse(200, 300)>> >>,
      << <<MetricOfResponse(200, 1500), MetricOfException(10)>> >>,
      << <<MetricOfResponse(200, 200)>>, <<MetricOfException(10)>> >> }

\* the fields of a ConcurrencyTestResult that the report's rules read; an
\* error rate of 2 is 20 failed requests of the 1000 of 100 users
ConcurrencyInput(user_count, error_rate, throughput) ==
    [concurrent_users |-> user_count, error_rate_percent |-> error_rate,
     throughput_rps |-> throughput]

ErrorRates == {Zero, Whole(2), Whole(10)}
Throughputs == {Whole(20), Whole(80)}

\* one result per user count, in the order of user_counts
ConcurrencyLists ==
    { << ConcurrencyInput(10, e1, t1), ConcurrencyInput(25, e2, t2) >> :
        e1 \in ErrorRates, t1 \in Throughputs, e2 \in ErrorRates, t2 \in Throughputs }

ReportInputs ==
    { [groups |-> g, concurrency_results |-> c] :
        g \in EndpointGroups, c \in ConcurrencyLists }

HasStatus(m) == m.status_code # 0
TimesOf(ms) == [i \in 1 .. Len(ms) |-> ms[i].response_time_ms]

\* an endpoint gets an api_performance entry when some metric has a status;
\* it is slow when the mean of those is above 1000
IsSlowGroup(group) ==
    LET response_times == TimesOf(SelectSeq(group, HasStatus)) IN
    /\ response_times # <<>>
    /\ RatLess(Whole(1000), Mean(response_times))

\* max(self.concurrency_results, key=lambda x: x.concurrent_users): the
\* first of the results with the most users
RECURSIVE MaxUsersTest(_)
MaxUsersTest(rs) ==
    IF Len(rs) = 1 THEN rs[1]
    ELSE LET m == MaxUsersTest(Tail(rs)) IN
         IF rs[1].concurrent_users >= m.concurrent_users THEN rs[1] ELSE m

SlowEndpoints(rep) == SelectSeq(rep.groups, IsSlowGroup) # <<>>
HighErrorRate(rep) ==
    /\ rep.concurrency_results # <<>>
    /\ RatLess(Whole(5), MaxUsersTest(rep.concurrency_results).error_rate_percent)
LowThroughput(rep) ==
    /\ rep.concurrency_results # <<>>
    /\ RatLess(MaxUsersTest(rep.concurrency_results).throughput_rps, Whole(50))

generate_performance_report(rep) ==
       When(SlowEndpoints(rep), Rec("API Performance", "HIGH", "slow endpoints", ""))
    \o When(HighErrorRate(rep), Rec("Scalability", "HIGH", "error rate", ""))
    \o When(LowThroughput(rep), Rec("Throughput", "MEDIUM", "throughput", ""))

GeneratePerformanceReport ==
    /\ script = "generate_performance_report"
    /\ rec_pc = "input"
    /\ recommendations' = generate_performance_report(rec_input)
    /\ rec_pc' = "done"
    /\ UNCHANGED <<script, rec_input, NotRec>>

-----------------------------------------------------------------------------
(* DatabasePerformanceTester._generate_index_recommendations *)

\* a column of pg_stat_user_tables: <<n>>, or <<>> for NULL (idx_scan of a
\* table without index)
OrZero(x) == IF x = <<>> THEN 0 ELSE x[1]

TableStat(name, seq_scan, idx_scan) ==
    [table_name |-> name, seq_scan |-> seq_scan, idx_scan |-> idx_scan]

SeqScans == {<<0>>, <<7>>, <<50>>, <<150>>}
IdxScans == {<<>>, <<0>>, <<3>>, <<50>>}

\* the rows of the table_stats query
TableStatLists ==
    { << TableStat("users", s1, i1), TableStat("processes", s2, i2) >> :
        s1 \in SeqScans, i1 \in IdxScans, s2 \in SeqScans, i2 \in IdxScans }

\* the idx_scan column of the rows of the indexes query
IndexLists == { <<>>, << <<12>> >>, << <<12>>, <<>> >> }

IndexInputs ==
    { [table_stats |-> t, indexes |-> i] : t \in TableStatLists, i \in IndexLists }

\* scan_ratio > 0.7 for scan_ratio = seq_scan / (seq_scan + idx_scan)
RatioAbove70(seq_scan, idx_scan) == 10 * seq_scan > 7 * (seq_scan + idx_scan)

\* the body of the loop over table_stats
TableRecommendation(stat) ==
    LET seq_scan == OrZero(stat.seq_scan)
        idx_scan == OrZero(stat.idx_scan)
    IN  IF seq_scan > 0 /\ idx_scan > 0
        THEN When(RatioAbove70(seq_scan, idx_scan),
                  Rec("Indexing", "", "high sequential scan ratio", stat.table_name))
        ELSE IF seq_scan > 100 /\ idx_scan = 0
        THEN <<Rec("Indexing", "", "only sequential scans", stat.table_name)>>
        ELSE <<>>

RECURSIVE TableRecommendations(_)
TableRecommendations(stats) ==
    IF stats = <<>> THEN <<>>
    ELSE TableRecommendation(Head(stats)) \o TableRecommendations(Tail(stats))

IsUnused(idx_scan) == OrZero(idx_scan) = 0

_generate_index_recommendations(table_stats, indexes) ==
       TableRecommendations(table_stats)
    \o When(SelectSeq(indexes, IsUnused) # <<>>,
            Rec("Indexing", "", "unused indexes", ""))

GenerateIndexRecommendations ==
    /\ script = "_generate_index_recommendations"
    /\ rec_pc = "input"
    /\ recommendations' =
          _generate_index_recommendations(rec_input.table_stats, rec_input.indexes)
    /\ rec_pc' = "done"
    /\ UNCHANGED <<script, rec_input, NotRec>>

-----------------------------------------------------------------------------
(* DatabasePerformanceTester._generate_db_recommendations *)

\* the fields of a test_concurrent_queries result that the rules read
ConcurrentQueries(qps, failed) == [queries_per_second |-> qps, failed_queries |-> failed]

ConcurrentQueryResults ==
    { ConcurrentQueries(Whole(200), 0), ConcurrentQueries(Whole(150), 1),
      ConcurrentQueries(Whole(50), 3) }

\* results for the keys 'concurrent_10_connections', ... in insertion order
ConcurrentQueryLists ==
    { <<a, b>> : a \in ConcurrentQueryResults, b \in ConcurrentQueryResults }

DbInputs ==
    { [connection_performance |-> [avg_connection_time_ms |-> c],
       basic_queries |-> q, concurrent |-> l, index_recommendations |-> x] :
        c \in {50, 150}, q \in {<<100>>, <<100, 700>>},
        l \in ConcurrentQueryLists,
        x \in {<<>>, <<Rec("Indexing", "", "only sequential scans", "users")>>} }

\* results[concurrent_tests[-1]]
LatestConcurrent(res) == res.concurrent[Len(res.concurrent)]

IsSlowQuery(avg_time_ms) == avg_time_ms > 500

\* for idx_rec in index_recommendations: one MEDIUM recommendation each
IndexOptimizations(recs) ==
    [i \in 1 .. Len(recs) |->
        Rec("Index Optimization", "MEDIUM", "index optimization", recs[i].subject)]

_generate_db_recommendations(res) ==
       When(res.connection_performance.avg_connection_time_ms > 100,
            Rec("Connection Performance", "MEDIUM", "connection time", ""))
    \o When(SelectSeq(res.basic_queries, IsSlowQuery) # <<>>,
            Rec("Query Performance", "HIGH", "slow basic queries", ""))
    \o When(res.concurrent # <<>>
                /\ RatLess(LatestConcurrent(res).queries_per_second, Whole(100)),
            Rec("Scalability", "HIGH", "throughput", ""))
    \o When(res.concurrent # <<>> /\ LatestConcurrent(res).failed_queries > 0,
            Rec("Reliability", "HIGH", "query failures", ""))
    \o IndexOptimizations(res.index_recommendations)

GenerateDbRecommendations ==
    /\ script = "_generate_db_recommendations"
    /\ rec_pc = "input"
    /\ recommendations' = _generate_db_recommendations(rec_input)
    /\ rec_pc' = "done"
    /\ UNCHANGED <<script, rec_input, NotRec>>

-----------------------------------------------------------------------------
(* CachePerformanceTester: test_cache_performance_improvement and          *)
(* analyze_cache_results                                                   *)

\* requests of the cold run and of the warm run
ColdRequests == 3
WarmRequests == 10
\* endpoints that run_cache_tests tests
CacheEndpoints == 4

\* n requests that each took ms milliseconds
Times(n, ms) == [i \in 1 .. n |-> ms]

\* sum(times) / len(times) if times else 0
Average(times) == IF times # <<>> THEN Mean(times) ELSE Zero

\* ((cold_avg - warm_avg) / cold_avg * 100) if cold_avg > 0 else 0
Improvement(cold_avg, warm_avg) ==
    IF cold_avg.num > 0
    THEN Rat((cold_avg.num * warm_avg.den - warm_avg.num * cold_avg.den) * 100,
             cold_avg.num * warm_avg.den)
    ELSE Zero

\* the dict test_cache_performance_improvement returns
CachePerformance(cold_times, warm_times) ==
    LET cold_avg == Average(cold_times)
        warm_avg == Average(warm_times)
        performance_improvement == Improvement(cold_avg, warm_avg)
    IN  [cold_cache_avg_ms |-> cold_avg,
         warm_cache_avg_ms |-> warm_avg,
         performance_improvement_percent |-> performance_improvement,
         cache_likely_present |-> RatLess(Whole(10), performance_improvement)]

\* what the three tests of one endpoint measured; error: one of them raised
\* and endpoint_results holds 'error'
EndpointTests(error, consistent, headers, cold_ms, warm_ms, concurrent_consistent, variation) ==
    [error |-> error,
     consistency |-> [content_consistent |-> consistent, cache_headers_found |-> headers],
     cold_times |-> Times(ColdRequests, cold_ms),
     warm_times |-> Times(WarmRequests, warm_ms),
     performance |-> <<>>,
     concurrent |-> [content_consistent |-> concurrent_consistent,
                     response_time_consistency |-> variation]]

EndpointProfiles ==
    { EndpointTests(TRUE, FALSE, FALSE, 100, 100, FALSE, 80),
      EndpointTests(FALSE, FALSE, FALSE, 100, 150, FALSE, 80),
      EndpointTests(FALSE, FALSE, FALSE, 200, 150, FALSE, 80),
      EndpointTests(FALSE, TRUE, FALSE, 100, 85, FALSE, 80),
      EndpointTests(FALSE, TRUE, FALSE, 100, 150, TRUE, 10),
      EndpointTests(FALSE, FALSE, FALSE, 1000, 900, FALSE, 80) }

\* results['tests'], in the order of test_endpoints
CacheInputs == [1 .. CacheEndpoints -> EndpointProfiles]

\* run_cache_tests: the performance test of every endpoint that did not fail
RunCacheTests ==
    /\ script = "analyze_cache_results"
    /\ rec_pc = "input"
    /\ rec_input' =
          [e \in DOMAIN rec_input |->
              IF rec_input[e].error THEN rec_input[e]
              ELSE [rec_input[e] EXCEPT !.performance =
                       <<CachePerformance(rec_input[e].cold_times,
                                          rec_input[e].warm_times)>>]]
    /\ rec_pc' = "measured"
    /\ UNCHANGED <<script, recommendations, NotRec>>

Points(cond, n) == IF cond THEN n ELSE 0

\* evidence_score of one endpoint
EvidenceScore(tests) ==
    LET performance == tests.performance[1] IN
      Points(tests.consistency.content_consistent, 2)
    + Points(tests.consistency.cache_headers_found, 3)
    + Points(performance.cache_likely_present, 4)
    + Points(RatLess(Whole(20), performance.performance_improvement_percent), 2)
    + Points(tests.concurrent.content_consistent, 1)
    + Points(tests.concurrent.response_time_consistency < 50, 1)

HasNoError(tests) == ~tests.error
LikelyCached(tests) == EvidenceScore(tests) >= 5
WarmAvg(tests) == tests.performance[1].warm_cache_avg_ms
HasWarmAvg(tests) == WarmAvg(tests).num > 0

\* performance_summary['avg_response_time_ms'], 0 without a positive warm
\* average
SummaryAvg(working) ==
    LET timed == SelectSeq(working, HasWarmAvg)
        avg_response_times == [i \in 1 .. Len(timed) |-> WarmAvg(timed[i])]
    IN  IF avg_response_times # <<>>
        THEN Rat(RatSum(avg_response_times).num,
                 RatSum(avg_response_times).den * Len(avg_response_times))
        ELSE Zero

\* the conditions the three rules of analyze_cache_results test
NoCacheEvidence(cached_endpoints, total_endpoints) ==
    cached_endpoints = 0 /\ total_endpoints > 0
FewCached(cached_endpoints, total_endpoints) ==
    2 * cached_endpoints < total_endpoints
SlowAverage(avg) == RatLess(Whole(500), avg)

\* the "Recommendations" block: if / elif, then the response-time check
analyze_cache_results(cache_results) ==
    LET working_endpoints == SelectSeq(cache_results, HasNoError)
        cached_endpoints  == Len(SelectSeq(working_endpoints, LikelyCached))
        total_endpoints   == Len(working_endpoints)
    IN     (IF NoCacheEvidence(cached_endpoints, total_endpoints)
            THEN <<Rec("Caching", "HIGH", "no cache evidence", "")>>
            ELSE When(FewCached(cached_endpoints, total_endpoints),
                      Rec("Caching", "MEDIUM", "few endpoints cached", "")))
        \o When(SlowAverage(SummaryAvg(working_endpoints)),
                Rec("Performance", "MEDIUM", "average response time", ""))

AnalyzeCacheResults ==
    /\ script = "analyze_cache_results"
    /\ rec_pc = "measured"
    /\ recommendations' = analyze_cache_results(rec_input)
    /\ rec_pc' = "done"
    /\ UNCHANGED <<script, rec_input, NotRec>>

-----------------------------------------------------------------------------
(* The readiness gates: a script that runs its checks and exits with a     *)
(* code. GameTester (script = "game"), run_verification ("verification")   *)
(* and GameSpider ("spider").                                              *)

\* the tests run_all_tests runs, in order
GameTestNames ==
    <<"Backend Health Check", "Game State API", "Process Creation",
      "Process Cancellation", "Hardware Info API", "Resource Management",
      "Concurrent Processes", "Frontend Accessibility", "Frontend Pages",
      "WebSocket Endpoint">>

\* what a test function does: returns a truthy value, a falsy one, or raises
TestOutcomes == {"true", "false", "raises"}

\* the entry GameTester.test appends to test_results
TestEntry(name, outcome) ==
    [test |-> name,
     status |-> IF outcome = "true" THEN "PASS" ELSE "FAIL",
     error |-> IF outcome = "raises" THEN <<"error">> ELSE <<>>]

\* GameTester.test(name, func)
GameTest(outcome) ==
    /\ script = "game"
    /\ gate_pc = "running"
    /\ total_tests < Len(GameTestNames)
    /\ total_tests' = total_tests + 1
    /\ passed_tests' = IF outcome = "true" THEN passed_tests + 1 ELSE passed_tests
    /\ failed_tests' = IF outcome = "true" THEN failed_tests ELSE failed_tests + 1
    /\ test_results' =
           Append(test_results, TestEntry(GameTestNames[total_tests + 1], outcome))
    /\ UNCHANGED <<gate_pc, verified, visited, issues, working_pages, cursor,
                   pending, fetched, logged, exit_code>>
    /\ UNCHANGED <<script, NotGate>>

\* (self.passed_tests / self.total_tests * 100) if self.total_tests > 0 else 0
success_rate ==
    IF total_tests > 0 THEN Rat(passed_tests * 100, total_tests) ELSE Zero

\* success_rate >= 90: the branch of run_all_tests that returns True
is_ready == ~RatLess(success_rate, Whole(90))

\* sys.exit(0 if is_ready else 1)
ExitCodeOf(success) == IF success THEN <<0>> ELSE <<1>>

\* the summary of run_all_tests and the exit of the script
GameTesterExits ==
    /\ script = "game"
    /\ gate_pc = "running"
    /\ total_tests = Len(GameTestNames)
    /\ gate_pc' = "exited"
    /\ exit_code' = ExitCodeOf(is_ready)
    /\ UNCHANGED <<total_tests, passed_tests, failed_tests, test_results,
                   verified, visited, issues, working_pages, cursor, pending,
                   fetched, logged>>
    /\ UNCHANGED <<script, NotGate>>

\* the suites run_verification runs, in order; the first six wrap their
\* body in try/except and record "<suite> Test" as failed on an exception
VerificationSuites ==
    <<"Security Headers", "Authentication", "CORS", "XSS Protection",
      "Rate Limiting", "Data Access Control", "WebSocket", "Frontend Features">>
UnguardedSuites == {"WebSocket", "Frontend Features"}

\* what a suite records: every check passed, one check failed next to one
\* that passed, or (a guarded suite) the body raised
SuiteOutcomes(name) ==
    IF name \in UnguardedSuites THEN {"pass", "fail"} ELSE {"pass", "fail", "error"}

\* test_result(test_name, passed) for the checks of one suite
test_result(res, name, outcome) ==
    [res EXCEPT
        !.passed = IF outcome \in {"pass", "fail"} THEN Append(@, name) ELSE @,
        !.failed = IF outcome \in {"fail", "error"} THEN Append(@, name) ELSE @]

\* one test_* function of verification_test.py
VerificationSuite(outcome) ==
    /\ script = "verification"
    /\ gate_pc = "running"
    /\ cursor <= Len(VerificationSuites)
    /\ outcome \in SuiteOutcomes(VerificationSuites[cursor])
    /\ verified' = test_result(verified, VerificationSuites[cursor], outcome)
    /\ cursor' = cursor + 1
    /\ UNCHANGED <<gate_pc, total_tests, passed_tests, failed_tests,
                   test_results, visited, issues, working_pages, pending,
                   fetched, logged, exit_code>>
    /\ UNCHANGED <<script, NotGate>>

\* return len(results['failed']) == 0, then sys.exit(0 if success else 1)
VerificationExits ==
    /\ script = "verification"
    /\ gate_pc = "running"
    /\ cursor > Len(VerificationSuites)
    /\ gate_pc' = "exited"
    /\ exit_code' = ExitCodeOf(Len(verified.failed) = 0)
    /\ UNCHANGED <<total_tests, passed_tests, failed_tests, test_results,
                   verified, visited, issues, working_pages, cursor, pending,
                   fetched, logged>>
    /\ UNCHANGED <<script, NotGate>>

(* GameSpider *)

frontend_base == "http://localhost:8080"
api_base == "http://localhost:3000"

\* a URL: <<base, path>>, so that link.startswith(base) is a test of the base
Url(base, path) == <<base, path>>

\* the head of the page list of test_frontend_pages (the source lists 24)
AllPages == <<"/index.html", "/login.html", "/game.html", "/internet.html">>
pages == SubSeq(AllPages, 1, SpiderPages)

\* the URLs test_css_files, test_javascript_files and the GET loop of
\* test_api_endpoints hand to check_url (the first of each list)
file_urls ==
    <<Url(frontend_base, "/css/he-matrix.css"), Url(frontend_base, "/js/game.js"),
      Url(api_base, "/health")>>

\* what requests.get does: a response with a status, or it raises
Responses == {<<"response", 200>>, <<"response", 404>>, <<"response", 500>>,
              <<"response", 403>>}
UrlOutcomes == Responses \cup {<<"timeout", 0>>, <<"error", 0>>}

\* the links extract_links can find in a page: other pages, local resources
\* and resources of another host
LinkTargets ==
    {Url(frontend_base, "/login.html"), Url(frontend_base, "/css/he-matrix.css"),
     Url("https://cdn.example.com", "/lib.js")}

\* the issue check_url appends for a request's outcome (<<>>: none), in the
\* order of its branches
IssueOf(url, outcome) ==
    IF outcome[1] = "timeout" THEN <<"Timeout", url>>
    ELSE IF outcome[1] = "error" THEN <<"Error", url>>
    ELSE IF outcome[2] = 404 THEN <<"404", url>>
    ELSE IF outcome[2] >= 500 THEN <<"Server Error", url>>
    ELSE IF outcome[2] # 200 THEN <<"HTTP", url>>
    ELSE <<>>

\* the level check_url logs for a request's outcome
LevelOf(outcome) ==
    IF outcome[1] # "response" THEN "FAIL"
    ELSE IF outcome[2] = 404 \/ outcome[2] >= 500 THEN "FAIL"
    ELSE IF outcome[2] # 200 THEN "WARN"
    ELSE "PASS"

\* what check_url returns: True for a URL in self.visited, else the response
\* object of a 200 and False for everything else
check_url(seen, url, outcome) ==
    IF url \in seen THEN "True"
    ELSE IF IssueOf(url, outcome) = <<>> THEN "response" ELSE "False"

\* the effect of check_url on the spider's state
CheckUrl(url, outcome) ==
    IF url \in visited
    THEN UNCHANGED <<visited, issues, fetched, logged>>
    ELSE /\ visited' = visited \cup {url}
         /\ fetched' = fetched \cup {<<url, outcome>>}
         /\ issues' = IF IssueOf(url, outcome) = <<>> THEN issues
                      ELSE Append(issues, IssueOf(url, outcome))
         /\ logged' = Append(logged, LevelOf(outcome))

\* where the spider is after a step of test_frontend_pages
AfterPages(next_cursor, links) ==
    IF links = {} /\ next_cursor > Len(pages) THEN "files" ELSE "pages"

\* GameSpider.run enters test_frontend_pages
SpiderRuns ==
    /\ script = "spider"
    /\ gate_pc = "running"
    /\ gate_pc' = "pages"
    /\ UNCHANGED <<total_tests, passed_tests, failed_tests, test_results,
                   verified, visited, issues, working_pages, cursor, pending,
                   fetched, logged, exit_code>>
    /\ UNCHANGED <<script, NotGate>>

\* one iteration of the loop over pages, up to its loop over the links
CheckPage(outcome, links) ==
    /\ script = "spider"
    /\ gate_pc = "pages"
    /\ pending = {}
    /\ cursor <= Len(pages)
    /\ LET url == Url(frontend_base, pages[cursor])
           response == check_url(visited, url, outcome)
           local == IF response = "response"
                    THEN {l \in links : l[1] = frontend_base} ELSE {}
       IN  /\ CheckUrl(url, outcome)
           /\ working_pages' =
                  IF response # "False" THEN working_pages + 1 ELSE working_pages
           /\ pending' = local
           /\ gate_pc' = AfterPages(cursor + 1, local)
           /\ cursor' = IF AfterPages(cursor + 1, local) = "files" THEN 1
                        ELSE cursor + 1
    /\ UNCHANGED <<total_tests, passed_tests, failed_tests, test_results,
                   verified, exit_code>>
    /\ UNCHANGED <<script, NotGate>>

\* self.check_url(link, ...) for one local link of the current page; the
\* links are a set, iterated in no particular order
CheckResource(link, outcome) ==
    /\ script = "spider"
    /\ gate_pc = "pages"
    /\ link \in pending
    /\ CheckUrl(link, outcome)
    /\ pending' = pending \ {link}
    /\ gate_pc' = AfterPages(cursor, pending \ {link})
    /\ cursor' = IF AfterPages(cursor, pending \ {link}) = "files" THEN 1
                 ELSE cursor
    /\ UNCHANGED <<total_tests, passed_tests, failed_tests, test_results,
                   verified, working_pages, exit_code>>
    /\ UNCHANGED <<script, NotGate>>

\* test_css_files, test_javascript_files and the GET loop of
\* test_api_endpoints: check_url for each listed URL
CheckFile(outcome) ==
    /\ script = "spider"
    /\ gate_pc = "files"
    /\ CheckUrl(file_urls[cursor], outcome)
    /\ gate_pc' = IF cursor = Len(file_urls) THEN "post" ELSE "files"
    /\ cursor' = cursor + 1
    /\ UNCHANGED <<total_tests, passed_tests, failed_tests, test_results,
                   verified, working_pages, pending, exit_code>>
    /\ UNCHANGED <<script, NotGate>>

\* the POST checks of test_api_endpoints and the level each outcome logs;
\* none of them touches self.issues
PostOutcomes ==
    {<<"started and cancelled", "PASS">>, <<"start answered non-200", "FAIL">>,
     <<"start not successful", "WARN">>, <<"cancel answered non-200", "FAIL">>,
     <<"request raised", "FAIL">>}

PostChecks(outcome) ==
    /\ script = "spider"
    /\ gate_pc = "post"
    /\ logged' = Append(logged, outcome[2])
    /\ gate_pc' = "websocket"
    /\ UNCHANGED <<total_tests, passed_tests, failed_tests, test_results,
                   verified, visited, issues, working_pages, cursor, pending,
                   fetched, exit_code>>
    /\ UNCHANGED <<script, NotGate>>

\* test_websocket: PASS for 426, 400 or 101, WARN otherwise
TestWebsocket(level) ==
    /\ script = "spider"
    /\ gate_pc = "websocket"
    /\ logged' = Append(logged, level)
    /\ gate_pc' = "common"
    /\ UNCHANGED <<total_tests, passed_tests, failed_tests, test_results,
                   verified, visited, issues, working_pages, cursor, pending,
                   fetched, exit_code>>
    /\ UNCHANGED <<script, NotGate>>

\* check_for_common_issues (its requests.get calls answer), generate_report,
\* return len(self.issues) == 0 and exit(0 if success else 1)
SpiderExits ==
    /\ script = "spider"
    /\ gate_pc = "common"
    /\ gate_pc' = "exited"
    /\ exit_code' = ExitCodeOf(Len(issues) = 0)
    /\ UNCHANGED <<total_tests, passed_tests, failed_tests, test_results,
                   verified, visited, issues, working_pages, cursor, pending,
                   fetched, logged>>
    /\ UNCHANGED <<script, NotGate>>

\* a requests.get of check_for_common_issues raises: nothing catches it and
\* the interpreter ends with status 1
SpiderRaises ==
    /\ script = "spider"
    /\ gate_pc = "common"
    /\ gate_pc' = "exited"
    /\ exit_code' = <<1>>
    /\ UNCHANGED <<total_tests, passed_tests, failed_tests, test_results,
                   verified, visited, issues, working_pages, cursor, pending,
                   fetched, logged>>
    /\ UNCHANGED <<script, NotGate>>

GateConstructed ==
    /\ gate_pc = "running"
    /\ total_tests = 0
    /\ passed_tests = 0
    /\ failed_tests = 0
    /\ test_results = <<>>
    /\ verified = [passed |-> <<>>, failed |-> <<>>, warnings |-> <<>>]
    /\ visited = {}
    /\ issues = <<>>
    /\ working_pages = 0
    /\ cursor = 1
    /\ pending = {}
    /\ fetched = {}
    /\ logged = <<>>
    /\ exit_code = <<>>

-----------------------------------------------------------------------------
(* secure_production_server.py. A string is the sequence of its characters, *)
(* so that the patterns, lower() and html.escape act on what they are given. *)

LowerLetters ==
    <<"a", "b", "c", "d", "e", "f", "g", "h", "i", "j", "k", "l", "m",
      "n", "o", "p", "q", "r", "s", "t", "u", "v", "w", "x", "y", "z">>
UpperLetters ==
    <<"A", "B", "C", "D", "E", "F", "G", "H", "I", "J", "K", "L", "M",
      "N", "O", "P", "Q", "R", "S", "T", "U", "V", "W", "X", "Y", "Z">>
Digits == {"0", "1", "2", "3", "4", "5", "6", "7", "8", "9"}

IsLower(c) == \E i \in DOMAIN LowerLetters : LowerLetters[i] = c
IsUpper(c) == \E i \in DOMAIN UpperLetters : UpperLetters[i] = c
IsLetter(c) == IsLower(c) \/ IsUpper(c)
IsDigit(c) == c \in Digits

\* str.lower()
LowerChar(c) ==
    IF IsUpper(c)
    THEN LowerLetters[CHOOSE i \in DOMAIN UpperLetters : UpperLetters[i] = c]
    ELSE c
ToLower(s) == [i \in DOMAIN s |-> LowerChar(s[i])]

\* html.escape(text, quote=True)
EscapeChar(c) ==
    IF c = "&" THEN <<"&", "a", "m", "p", ";">>
    ELSE IF c = "<" THEN <<"&", "l", "t", ";">>
    ELSE IF c = ">" THEN <<"&", "g", "t", ";">>
    ELSE IF c = "\"" THEN <<"&", "q", "u", "o", "t", ";">>
    ELSE IF c = "'" THEN <<"&", "#", "x", "2", "7", ";">>
    ELSE <<c>>
RECURSIVE sanitize_input(_)
sanitize_input(text) ==
    IF text = <<>> THEN <<>>
    ELSE EscapeChar(Head(text)) \o sanitize_input(Tail(text))

AllIn(s, Class(_)) == \A i \in DOMAIN s : Class(s[i])

\* USERNAME_PATTERN: ^[a-zA-Z0-9_]{3,20}$
UsernameChar(c) == IsLetter(c) \/ IsDigit(c) \/ c = "_"
USERNAME_PATTERN(s) == Len(s) >= 3 /\ Len(s) <= 20 /\ AllIn(s, UsernameChar)

\* EMAIL_PATTERN: ^[a-zA-Z0-9._%+-]+@[a-zA-Z0-9.-]+\.[a-zA-Z]{2,}$
LocalChar(c) == IsLetter(c) \/ IsDigit(c) \/ c \in {".", "_", "%", "+", "-"}
DomainChar(c) == IsLetter(c) \/ IsDigit(c) \/ c \in {".", "-"}
EMAIL_PATTERN(s) ==
    \E at \in DOMAIN s, dot \in DOMAIN s :
        /\ s[at] = "@" /\ s[dot] = "." /\ at < dot
        /\ at > 1 /\ AllIn(SubSeq(s, 1, at - 1), LocalChar)
        /\ dot > at + 1 /\ AllIn(SubSeq(s, at + 1, dot - 1), DomainChar)
        /\ Len(s) >= dot + 2 /\ AllIn(SubSeq(s, dot + 1, Len(s)), IsLetter)

\* validate_registration(data): the list of errors
validate_registration(data) ==
    When(~USERNAME_PATTERN(data.username),
         "Username must be 3-20 alphanumeric characters")
    \o When(~EMAIL_PATTERN(data.email), "Invalid email format")
    \o When(Len(data.password) < 8, "Password must be at least 8 characters")
    \o When(~\E i \in DOMAIN data.password : IsUpper(data.password[i]),
            "Password must contain uppercase letter")
    \o When(~\E i \in DOMAIN data.password : IsLower(data.password[i]),
            "Password must contain lowercase letter")
    \o When(~\E i \in DOMAIN data.password : IsDigit(data.password[i]),
            "Password must contain digit")

\* the request threads of the server (app.run serves each request in a
\* thread of its own)
Threads == {"t1", "t2"}
\* the threads that serve requests in this behaviour: one when the clients
\* send their requests one after the other (script = "server"), both when
\* they register at the same time (script = "registering")
Pool == IF script = "server" THEN {"t1"} ELSE Threads

\* the seconds of the server's clock
Clock == 0 .. MaxClock

\* dict[key] = value
Put(dict, key, value) ==
    [k \in DOMAIN dict \cup {key} |-> IF k = key THEN value ELSE dict[k]]
\* del dict[key]
Del(dict, key) == [k \in DOMAIN dict \ {key} |-> dict[k]]
EmptyDict == [k \in {} |-> <<>>]

\* the bodies a client posts to /api/register
Credentials(username, email, password) ==
    [username |-> username, email |-> email, password |-> password]
StrongPassword == <<"P", "a", "s", "s", "w", "0", "r", "d">>
RegisterBodies ==
    {Credentials(<<"b", "o", "b">>, <<"b", "@", "x", ".", "i", "o">>, StrongPassword),
     Credentials(<<"b", "o", "b">>, <<"B", "@", "x", ".", "i", "o">>, StrongPassword),
     Credentials(<<"e", "v", "e">>, <<"e", "@", "x", ".", "i", "o">>, StrongPassword),
     Credentials(<<"a">>, <<"a", "@", "x", ".", "i", "o">>, StrongPassword),
     Credentials(<<"<", "b", ">">>, <<"a", "@", "x", ".", "i", "o">>, StrongPassword),
     Credentials(<<"a", "n", "n">>, <<"i", "n", "v", "a", "l", "i", "d">>, StrongPassword),
     Credentials(<<"a", "n", "n">>, <<"a", "@", "x", ".", "i", "o">>,
                 <<"w", "e", "a", "k">>)}

\* the bodies a client posts to /api/login
LoginBodies ==
    {[email |-> <<"B", "@", "x", ".", "i", "o">>, password |-> StrongPassword],
     [email |-> <<"b", "@", "x", ".", "i", "o">>, password |-> <<"w", "e", "a", "k">>],
     [email |-> <<"n", "@", "x", ".", "i", "o">>, password |-> StrongPassword],
     [email |-> <<>>, password |-> StrongPassword]}

\* generate_password_hash and check_password_hash
generate_password_hash(password) == <<"hash", password>>
check_password_hash(pwhash, password) == pwhash = <<"hash", password>>

\* a token: the payload's user_id and exp, and the key that signed it
Token(user_id, exp, key) == [user_id |-> user_id, exp |-> exp, key |-> key]
\* what a client can send that the server never issued: a string that is no
\* JWT, and a JWT signed with a key of the client's
Forgeries == {Token(0, 0, "none"), Token(1, MaxClock + TokenLifetime, "other")}
\* the Authorization header: <<>> when the request has none
Headers == {<<>>} \cup {<<t>> : t \in issued \cup Forgeries}

\* jwt.decode(token, JWT_SECRET, algorithms=[JWT_ALGORITHM])
jwt_decode(token) ==
    IF token.key # "JWT_SECRET" THEN "InvalidTokenError"
    ELSE IF token.exp <= now THEN "ExpiredSignatureError"
    ELSE "payload"

ProtectedRoutes ==
    {"/api/state", "/api/processes", "/api/hardware", "/api/processes/start",
     "/api/logout"}

\* the bodies a client posts to /api/processes/start; the other protected
\* routes read no body
ProcessBodies ==
    {[process_type |-> "scan", target |-> "192.168.1.1"],
     [process_type |-> "Scan", target |-> "192.168.1.1"],
     [process_type |-> "", target |-> ""]}
NoBody == [process_type |-> "", target |-> ""]
BodiesOf(route) == IF route = "/api/processes/start" THEN ProcessBodies ELSE {NoBody}
valid_types == {"hack", "scan", "crack", "ddos", "download", "upload"}

Idle == [pc |-> "idle"]
\* the thread that serves the next request: the first that is free
Free(t) ==
    /\ t \in Pool
    /\ workers[t].pc = "idle"
    /\ t = "t2" => workers["t1"].pc # "idle"

\* the response a thread sends: the route, the status, whether the body of
\* the handler ran, and what the thread observed while it served the request.
\* For a protected route: the token of the Authorization header was
\* acceptable, and had been revoked by a logout, when require_auth looked at
\* it. For /api/register: the store added a key to users_db, and the
\* user_id was no other user's.
Response(route, status, ran, observed) ==
    [route |-> route, status |-> status, ran |-> ran, observed |-> observed]
\* a request that stored nothing and was not checked
Nothing == <<FALSE, FALSE>>

\* the token of the header was issued by the server, has not expired, and
\* its user has a session
Acceptable(header) ==
    /\ header # <<>>
    /\ header[1] \in issued
    /\ header[1].exp > now
    /\ header[1].user_id \in DOMAIN auth_sessions

\* what holds of a header when require_auth looks at it
Checked(header) == <<Acceptable(header), header # <<>> /\ header[1] \in revoked>>

\* game_state['private'][user_id] of a new user
NewGameState == [level |-> 1, money |-> 1000, processes |-> <<>>]

ServerConstructed ==
    /\ users_db = EmptyDict
    /\ auth_sessions = EmptyDict
    /\ game_state = [public |-> [online_players |-> 42], private |-> EmptyDict]
    /\ workers = [t \in Threads |-> Idle]
    /\ now = 0
    /\ issued = {}
    /\ revoked = {}
    /\ answered = <<>>

\* the thread sends its response and is free for the next request
Answers(t, response) ==
    /\ workers' = [workers EXCEPT ![t] = Idle]
    /\ answered' = <<response>>

\* register(), up to `if email in users_db`
RegisterReceives(t, data) ==
    /\ script \in {"server", "registering"}
    /\ Free(t)
    /\ LET username == sanitize_input(data.username)
           email == sanitize_input(ToLower(data.email))
       IN  IF validate_registration(data) # <<>> \/ email \in DOMAIN users_db
           THEN Answers(t, Response("/api/register", 400, FALSE, Nothing))
           ELSE /\ workers' = [workers EXCEPT ![t] =
                       [pc |-> "register_checked", username |-> username,
                        email |-> email, password |-> data.password]]
                /\ answered' = <<>>
    /\ UNCHANGED <<users_db, auth_sessions, game_state, now, issued, revoked>>
    /\ UNCHANGED <<script, NotServer>>

\* password_hash = generate_password_hash(...); user_id = len(users_db) + 1
RegisterNumbers(t) ==
    /\ script \in {"server", "registering"}
    /\ workers[t].pc = "register_checked"
    /\ workers' = [workers EXCEPT ![t] =
           [pc |-> "register_numbered", username |-> @.username,
            email |-> @.email,
            password_hash |-> generate_password_hash(@.password),
            user_id |-> Cardinality(DOMAIN users_db) + 1]]
    /\ answered' = <<>>
    /\ UNCHANGED <<users_db, auth_sessions, game_state, now, issued, revoked>>
    /\ UNCHANGED <<script, NotServer>>

\* users_db[email] = {...}
RegisterStores(t) ==
    /\ script \in {"server", "registering"}
    /\ workers[t].pc = "register_numbered"
    /\ LET w == workers[t]
       IN  users_db' = Put(users_db, w.email,
               [id |-> w.user_id, username |-> w.username, email |-> w.email,
                password_hash |-> w.password_hash])
    /\ workers' = [workers EXCEPT ![t] =
           [pc |-> "register_stored", user_id |-> @.user_id,
            stored |-> <<@.email \notin DOMAIN users_db,
                         \A e \in DOMAIN users_db : users_db[e].id # @.user_id>>]]
    /\ answered' = <<>>
    /\ UNCHANGED <<auth_sessions, game_state, now, issued, revoked>>
    /\ UNCHANGED <<script, NotServer>>

\* game_state['private'][user_id] = {...}; return ..., 201
RegisterAnswers(t) ==
    /\ script \in {"server", "registering"}
    /\ workers[t].pc = "register_stored"
    /\ game_state' = [game_state EXCEPT
           !.private = Put(@, workers[t].user_id, NewGameState)]
    /\ Answers(t, Response("/api/register", 201, TRUE, workers[t].stored))
    /\ UNCHANGED <<users_db, auth_sessions, now, issued, revoked>>
    /\ UNCHANGED <<script, NotServer>>

\* a thread is free to serve a request
SomeFree == \E t \in Threads : Free(t)

\* one step of a thread that serves a request in one piece
Serves(response) ==
    /\ SomeFree
    /\ answered' = <<response>>
    /\ UNCHANGED workers

\* what login() answers: 400, 401, or 200 with a token
LoginStatus(data) ==
    LET email == sanitize_input(ToLower(data.email))
    IN  IF data.email = <<>> \/ data.password = <<>> THEN 400
        ELSE IF email \notin DOMAIN users_db THEN 401
        ELSE IF ~check_password_hash(users_db[email].password_hash, data.password)
        THEN 401
        ELSE 200

\* login(): on success the token is made of the user's id and an expiry
\* one TokenLifetime ahead, and sessions[user['id']] is set
Login(data) ==
    /\ script = "server"
    /\ LET user == users_db[sanitize_input(ToLower(data.email))]
           token == Token(user.id, now + TokenLifetime, "JWT_SECRET")
       IN  IF LoginStatus(data) = 200
           THEN /\ auth_sessions' = Put(auth_sessions, user.id, [ip |-> "127.0.0.1"])
                /\ issued' = issued \cup {token}
                /\ revoked' = revoked \ {token}
           ELSE UNCHANGED <<auth_sessions, issued, revoked>>
    /\ Serves(Response("/api/login", LoginStatus(data), TRUE, Nothing))
    /\ UNCHANGED <<users_db, game_state, now>>
    /\ UNCHANGED <<script, NotServer>>

\* a require_auth that does not look at the sessions
SessionIgnored(user_id) == TRUE
\* `user_id not in sessions` of require_auth
SessionActive(user_id) == user_id \in DOMAIN auth_sessions

\* require_auth: the status it answers itself, 0 when it calls the handler
require_auth(header) ==
    IF header = <<>> THEN 401
    ELSE IF jwt_decode(header[1]) # "payload" THEN 401
    ELSE IF ~SessionActive(header[1].user_id) THEN 401
    ELSE 0

\* what start_process answers for a body: 400 or 200
StartStatus(body) ==
    IF body.process_type = "" \/ body.target = "" THEN 400
    ELSE IF body.process_type \notin valid_types THEN 400
    ELSE 200

\* what the handler of a protected route other than logout answers. The
\* three GETs read game_state['private'].get(user_id, {}); start_process
\* indexes it and raises KeyError (answered 500) for a user whose state
\* register has not stored yet
HandlerStatus(route, user_id, body) ==
    IF route # "/api/processes/start" THEN 200
    ELSE IF StartStatus(body) # 200 THEN 400
    ELSE IF user_id \in DOMAIN game_state.private THEN 200
    ELSE 500

\* a request to api_state, api_processes, api_hardware or start_process:
\* require_auth, then the handler
Request(route, header, body) ==
    /\ script = "server"
    /\ route \in ProtectedRoutes \ {"/api/logout"}
    /\ IF require_auth(header) # 0
       THEN /\ Serves(Response(route, require_auth(header), FALSE, Checked(header)))
            /\ UNCHANGED game_state
       ELSE LET user_id == header[1].user_id
                status == HandlerStatus(route, user_id, body)
                starts == route = "/api/processes/start" /\ status = 200
            IN  /\ starts =>
                       Len(game_state.private[user_id].processes) < MaxProcesses
                /\ game_state' =
                       IF starts
                       THEN [game_state EXCEPT !.private[user_id].processes =
                                Append(@, [id |-> Len(@) + 1,
                                           type |-> body.process_type,
                                           target |-> body.target])]
                       ELSE game_state
                /\ Serves(Response(route, status, TRUE, Checked(header)))
    /\ UNCHANGED <<users_db, auth_sessions, now, issued, revoked>>
    /\ UNCHANGED <<script, NotServer>>

\* the tokens the server issued to a user
TokensOf(user_id) == {token \in issued : token.user_id = user_id}

\* a request to logout: require_auth, then
\* `if user_id in sessions: del sessions[user_id]`
Logout(header) ==
    /\ script = "server"
    /\ IF require_auth(header) # 0
       THEN /\ Serves(Response("/api/logout", require_auth(header), FALSE,
                               Checked(header)))
            /\ UNCHANGED <<auth_sessions, revoked>>
       ELSE /\ auth_sessions' = Del(auth_sessions, header[1].user_id)
            /\ revoked' = revoked \cup TokensOf(header[1].user_id)
            /\ Serves(Response("/api/logout", 200, TRUE, Checked(header)))
    /\ UNCHANGED <<users_db, game_state, now, issued>>
    /\ UNCHANGED <<script, NotServer>>

\* a second passes
Tick ==
    /\ script = "server"
    /\ now < MaxClock
    /\ now' = now + 1
    /\ answered' = <<>>
    /\ UNCHANGED <<users_db, auth_sessions, game_state, workers, issued,
                   revoked>>
    /\ UNCHANGED <<script, NotServer>>

-----------------------------------------------------------------------------
(* websocket_server.py: the connection handlers, the broadcasts and the
   periodic task, one step from an await to the next. A coroutine that
   awaits may or may not be suspended: the step after an await can be taken
   at once or after steps of the other coroutines. *)

Conns == {"c1", "c2"}
Coroutines == Conns \cup {"periodic"}
WsUsers == {1, 2}
Rooms == {"general"}

\* the slot of a deleted key of a dict
Hole == [user_id |-> 0, websocket |-> "none"]
\* the slots of a dict that hold an entry, its keys and its len()
Live(cc) == {i \in 1 .. Len(cc) : cc[i] # Hole}
Keys(cc) == {cc[i].user_id : i \in Live(cc)}
Size(cc) == Cardinality(Live(cc))
IndexOf(cc, user_id) == CHOOSE i \in Live(cc) : cc[i].user_id = user_id
\* cc[user_id]
GetItem(cc, user_id) == cc[IndexOf(cc, user_id)]
\* cc[user_id] = entry: a key the dict has keeps its slot, a new key takes
\* the next slot
SetItem(cc, user_id, entry) ==
    IF user_id \in Keys(cc) THEN [cc EXCEPT ![IndexOf(cc, user_id)] = entry]
    ELSE Append(cc, entry)
\* del cc[user_id]
DelItem(cc, user_id) == [cc EXCEPT ![IndexOf(cc, user_id)] = Hole]

LeastOf(S) == CHOOSE i \in S : \A j \in S : i <= j

\* the messages a client sends: auth without a token, with a token that
\* jwt.decode rejects, with a token of a user; ping; the game actions
WsMessages ==
    {[type |-> "auth", token |-> 0, action |-> ""],
     [type |-> "auth", token |-> -1, action |-> ""]}
    \cup {[type |-> "auth", token |-> u, action |-> ""] : u \in WsUsers}
    \cup {[type |-> "ping", token |-> 0, action |-> ""]}
    \cup {[type |-> "game_action", token |-> 0, action |-> a] :
            a \in {"start_process", "hack_complete", "chat", "join_room"}}

\* a coroutine that is not inside a broadcast
Waiting(pc, user_id) == [pc |-> pc, user_id |-> user_id, pending |-> 0, it |-> <<>>]

WsConstructed ==
    /\ connected_clients = <<>>
    /\ game_rooms = EmptyDict
    /\ handlers = [t \in Coroutines |->
                      Waiting(IF t = "periodic" THEN "sleeping" ELSE "recv", <<>>)]
    /\ closed = {}
    /\ ws_errors = {}

\* next() of the iterator of connected_clients.items(), up to the next entry
\* broadcast_to_all sends to: the iterator skips the holes, ends after the
\* last slot, and raises when it has handed out as many entries as the
\* dict had when the loop began
RECURSIVE Advance(_, _, _, _)
Advance(cc, pos, len, exclude) ==
    LET later == {i \in Live(cc) : i > pos}
    IN  IF later = {} THEN [kind |-> "end", pos |-> pos, len |-> len]
        ELSE IF len = 0 THEN [kind |-> "RuntimeError", pos |-> pos, len |-> len]
        ELSE IF cc[LeastOf(later)].user_id = exclude
        THEN Advance(cc, LeastOf(later), len - 1, exclude)
        ELSE [kind |-> "send", pos |-> LeastOf(later), len |-> len - 1]

\* for user_id in disconnected: del connected_clients[user_id]
RECURSIVE Cleanup(_, _)
Cleanup(cc, disconnected) ==
    IF disconnected = <<>> THEN [outcome |-> "done", cc |-> cc]
    ELSE IF Head(disconnected) \notin Keys(cc) THEN [outcome |-> "KeyError", cc |-> cc]
    ELSE Cleanup(DelItem(cc, Head(disconnected)), Tail(disconnected))

\* the loop variables of a broadcast_to_all that begins, and where it
\* returns to
NewBroadcast(cc, exclude, after) ==
    [pos |-> 0, used |-> Size(cc), len |-> Size(cc), disconnected |-> <<>>,
     exclude |-> exclude, after |-> after]

\* broadcast_to_all from where it stands to its next await, its return or
\* its exception. A send to a connection whose peer has gone raises, and
\* the user id is appended to disconnected
broadcast_to_all(cc, it) ==
    IF Size(cc) # it.used THEN [outcome |-> "RuntimeError", cc |-> cc, it |-> it]
    ELSE LET a == Advance(cc, it.pos, it.len, it.exclude)
         IN  IF a.kind = "RuntimeError"
             THEN [outcome |-> "RuntimeError", cc |-> cc, it |-> it]
             ELSE IF a.kind = "end"
             THEN [outcome |-> Cleanup(cc, it.disconnected).outcome,
                   cc |-> Cleanup(cc, it.disconnected).cc, it |-> it]
             ELSE [outcome |-> "suspended", cc |-> cc,
                   it |-> [it EXCEPT
                       !.pos = a.pos, !.len = a.len,
                       !.disconnected =
                           IF cc[a.pos].websocket \in closed
                           THEN Append(@, cc[a.pos].user_id) ELSE @]]

\* room.remove(user_id): the first occurrence
RECURSIVE RemoveFirst(_, _)
RemoveFirst(room, user_id) ==
    IF room = <<>> THEN <<>>
    ELSE IF Head(room) = user_id THEN Tail(room)
    ELSE <<Head(room)>> \o RemoveFirst(Tail(room), user_id)

InRoom(room, user_id) == \E i \in 1 .. Len(room) : room[i] = user_id

\* the end of handle_client's finally: the user leaves the rooms
LeaveRooms(rooms, user_id) ==
    [r \in DOMAIN rooms |->
        IF InRoom(rooms[r], user_id) THEN RemoveFirst(rooms[r], user_id)
        ELSE rooms[r]]

\* what follows a broadcast_to_all that returned (ok) or raised, without an
\* await in between. In authenticate_client: `return user_id` and the
\* assignment of handle_client, or the exception caught by handle_client's
\* `except Exception`, which leaves user_id None. In handle_game_action: the
\* next message. In the finally of handle_client: the rooms, or the
\* exception ends the handler. In periodic_updates: the next sleep, or the
\* exception ends the task.
Returns(t, h, after, ok) ==
    IF after = "auth"
    THEN /\ handlers' = [handlers EXCEPT ![t] =
                Waiting("recv", IF ok THEN <<h.pending>> ELSE h.user_id)]
         /\ UNCHANGED game_rooms
    ELSE IF after = "message"
    THEN /\ handlers' = [handlers EXCEPT ![t] = Waiting("recv", h.user_id)]
         /\ UNCHANGED game_rooms
    ELSE IF after = "finally"
    THEN /\ handlers' = [handlers EXCEPT ![t] = Waiting("finished", h.user_id)]
         /\ game_rooms' = IF ok THEN LeaveRooms(game_rooms, h.user_id[1])
                          ELSE game_rooms
    ELSE /\ handlers' = [handlers EXCEPT ![t] =
                Waiting(IF ok THEN "sleeping" ELSE "dead", <<>>)]
         /\ UNCHANGED game_rooms

\* coroutine t, with locals h, runs broadcast_to_all over cc to its next
\* await or to its end
Broadcasts(t, h, cc, it) ==
    LET r == broadcast_to_all(cc, it)
    IN  /\ connected_clients' = r.cc
        /\ ws_errors' = IF r.outcome \in {"RuntimeError", "KeyError"}
                        THEN ws_errors \cup {r.outcome} ELSE ws_errors
        /\ IF r.outcome = "suspended"
           THEN /\ handlers' = [handlers EXCEPT ![t] =
                       [pc |-> "bcast", user_id |-> h.user_id,
                        pending |-> h.pending, it |-> <<r.it>>]]
                /\ UNCHANGED game_rooms
           ELSE Returns(t, h, it.after, r.outcome = "done")

\* a step that leaves the shared state of the server as it is
WsSame == UNCHANGED <<connected_clients, game_rooms, ws_errors>>


\* broadcast_to_user up to its await: a send to the connection the user's
\* entry holds; when it raises, the `del` of the except clause runs after
\* the await
broadcast_to_user(c, h) ==
    /\ handlers' = [handlers EXCEPT ![c] =
           IF /\ h.user_id[1] \in Keys(connected_clients)
              /\ GetItem(connected_clients, h.user_id[1]).websocket \in closed
           THEN Waiting("user_failed", h.user_id)
           ELSE Waiting("recv", h.user_id)]
    /\ UNCHANGED <<connected_clients, ws_errors>>

\* `del connected_clients[user_id]` of broadcast_to_user; its KeyError is
\* caught by handle_client
UserFailed(c) ==
    /\ script = "websocket"
    /\ handlers[c].pc = "user_failed"
    /\ LET user_id == handlers[c].user_id[1]
       IN  connected_clients' =
               IF user_id \in Keys(connected_clients)
               THEN DelItem(connected_clients, user_id) ELSE connected_clients
    /\ handlers' = [handlers EXCEPT ![c] = Waiting("recv", @.user_id)]
    /\ UNCHANGED <<game_rooms, closed, ws_errors>>
    /\ UNCHANGED <<script, NotWs>>

\* the list of a room, created when it is joined first
MembersOf(room_name) ==
    IF room_name \in DOMAIN game_rooms THEN game_rooms[room_name] ELSE <<>>

\* handle_game_action up to its first await; an exception it raises is
\* caught by handle_client, which takes the next message
handle_game_action(c, h, action) ==
    LET user_id == h.user_id[1]
    IN  IF action = "start_process"
        THEN broadcast_to_user(c, h) /\ UNCHANGED game_rooms
        ELSE IF action = "hack_complete"
        THEN Broadcasts(c, h, connected_clients,
                        NewBroadcast(connected_clients, 0, "message"))
        ELSE IF action = "chat"
        THEN IF user_id \in Keys(connected_clients)
             THEN Broadcasts(c, h, connected_clients,
                             NewBroadcast(connected_clients, 0, "message"))
             ELSE UNCHANGED handlers /\ WsSame
        ELSE /\ Len(MembersOf("general")) < MaxJoins
             /\ game_rooms' = Put(game_rooms, "general",
                                  Append(MembersOf("general"), user_id))
             /\ broadcast_to_user(c, h)

\* authenticate_client up to the await of the 'authenticated' reply
authenticate_client(c, h, token) ==
    IF token \notin WsUsers
    THEN UNCHANGED handlers /\ WsSame
    ELSE /\ token \in Keys(connected_clients) \/ Len(connected_clients) < MaxEntries
         /\ connected_clients' = SetItem(connected_clients, token,
                                         [user_id |-> token, websocket |-> c])
         /\ handlers' = [handlers EXCEPT ![c] =
                [pc |-> "auth_sent", user_id |-> h.user_id, pending |-> token,
                 it |-> <<>>]]
         /\ UNCHANGED <<game_rooms, ws_errors>>

\* handle_client takes one message of an open connection
Receives(c, data) ==
    /\ script = "websocket"
    /\ handlers[c].pc = "recv"
    /\ c \notin closed
    /\ LET h == handlers[c]
       IN  IF data.type = "auth" /\ h.user_id = <<>>
           THEN authenticate_client(c, h, data.token)
           ELSE IF data.type = "game_action" /\ h.user_id # <<>>
           THEN handle_game_action(c, h, data.action)
           ELSE UNCHANGED handlers /\ WsSame
    /\ UNCHANGED closed
    /\ UNCHANGED <<script, NotWs>>

\* authenticate_client after the 'authenticated' reply: the send raised if
\* the peer has gone, and connected_clients[user_id]['username'] raises if
\* the entry has gone; else the user_joined broadcast begins
AuthSent(c) ==
    /\ script = "websocket"
    /\ handlers[c].pc = "auth_sent"
    /\ LET h == handlers[c]
       IN  IF c \in closed \/ h.pending \notin Keys(connected_clients)
           THEN /\ handlers' = [handlers EXCEPT ![c] = Waiting("recv", h.user_id)]
                /\ WsSame
           ELSE Broadcasts(c, h, connected_clients,
                           NewBroadcast(connected_clients, h.pending, "auth"))
    /\ UNCHANGED closed
    /\ UNCHANGED <<script, NotWs>>

\* a broadcast_to_all goes on after the await of a send
BroadcastResumes(t) ==
    /\ script = "websocket"
    /\ handlers[t].pc = "bcast"
    /\ Broadcasts(t, handlers[t], connected_clients, handlers[t].it[1])
    /\ UNCHANGED closed
    /\ UNCHANGED <<script, NotWs>>

\* the finally of handle_client, up to the first await of its broadcast
Finally(c) ==
    /\ script = "websocket"
    /\ handlers[c].pc = "recv"
    /\ c \in closed
    /\ LET h == handlers[c]
       IN  IF h.user_id # <<>> /\ h.user_id[1] \in Keys(connected_clients)
           THEN Broadcasts(c, h, DelItem(connected_clients, h.user_id[1]),
                    NewBroadcast(DelItem(connected_clients, h.user_id[1]), 0,
                                 "finally"))
           ELSE /\ handlers' = [handlers EXCEPT ![c] = Waiting("finished", h.user_id)]
                /\ WsSame
    /\ UNCHANGED closed
    /\ UNCHANGED <<script, NotWs>>

\* periodic_updates wakes and broadcasts the status update
periodic_updates ==
    /\ script = "websocket"
    /\ handlers["periodic"].pc = "sleeping"
    /\ Broadcasts("periodic", handlers["periodic"], connected_clients,
                  NewBroadcast(connected_clients, 0, "periodic"))
    /\ UNCHANGED closed
    /\ UNCHANGED <<script, NotWs>>

\* the peer of a connection goes away
Disconnects(c) ==
    /\ script = "websocket"
    /\ c \notin closed
    /\ closed' = closed \cup {c}
    /\ UNCHANGED <<connected_clients, game_rooms, handlers, ws_errors>>
    /\ UNCHANGED <<script, NotWs>>

-----------------------------------------------------------------------------
(* server_monitoring_test.py: check_system_health *)

\* what a command prints, read as a number: <<>> when it is none
DiskOutputs == {<<>>, <<80>>, <<81>>, <<90>>, <<91>>}
MemoryOutputs == {<<>>, <<85>>, <<86>>, <<95>>, <<96>>}
LoadOutputs == {<<>>, <<1>>, <<2>>, <<3>>, <<4>>, <<5>>}
CoreCounts == {1, 2}
ZombieOutputs == {<<>>, <<10>>, <<11>>}
ServiceStatuses == {"active", "inactive", ""}
critical_services == <<"sshd", "systemd">>

HealthConstructed ==
    /\ health_pc = "disk"
    /\ health_status = [overall_status |-> "HEALTHY", checks |-> <<>>,
                        warnings |-> <<>>, critical_issues |-> <<>>,
                        services |-> <<>>]
    /\ running_services = <<>>

\* a warning that sets the status whatever it was
WarningAlways(status) == "WARNING"
\* if health_status['overall_status'] == 'HEALTHY':
\*     health_status['overall_status'] = 'WARNING'
WarningStatus(status) == IF status = "HEALTHY" THEN "WARNING" ELSE status

\* critical_issues.append(...); overall_status = 'CRITICAL'
Critical(hs, issue) ==
    [hs EXCEPT !.critical_issues = Append(@, issue), !.overall_status = "CRITICAL"]
\* warnings.append(...) and the conditional change of the status
Warning(hs, issue) ==
    [hs EXCEPT !.warnings = Append(@, issue),
               !.overall_status = WarningStatus(@)]
\* health_status['checks'][name] = value
Measured(hs, name, value) == [hs EXCEPT !.checks = Append(@, <<name, value>>)]

\* one check of a value against its two thresholds
Graded(hs, name, value, critical, warning) ==
    IF critical THEN Critical(Measured(hs, name, value), name)
    ELSE IF warning THEN Warning(Measured(hs, name, value), name)
    ELSE Measured(hs, name, value)

\* Check disk space
CheckDisk(out) ==
    /\ script = "health"
    /\ health_pc = "disk"
    /\ health_status' =
           IF out = <<>> THEN health_status
           ELSE Graded(health_status, "disk_usage_percent", out[1],
                       out[1] > 90, out[1] > 80)
    /\ health_pc' = "memory"
    /\ UNCHANGED <<running_services, script, NotHealth>>

\* Check memory usage
CheckMemory(out) ==
    /\ script = "health"
    /\ health_pc = "memory"
    /\ health_status' =
           IF out = <<>> THEN health_status
           ELSE Graded(health_status, "memory_usage_percent", out[1],
                       out[1] > 95, out[1] > 85)
    /\ health_pc' = "load"
    /\ UNCHANGED <<running_services, script, NotHealth>>

\* Check load average: critical above cpu_cores * 2, warning above
\* cpu_cores * 1.5
CheckLoad(out, cpu_cores) ==
    /\ script = "health"
    /\ health_pc = "load"
    /\ health_status' =
           IF out = <<>> THEN health_status
           ELSE Graded(health_status, "load_1min", out[1],
                       out[1] > cpu_cores * 2, 2 * out[1] > cpu_cores * 3)
    /\ health_pc' = "zombies"
    /\ UNCHANGED <<running_services, script, NotHealth>>

\* Check for zombie processes
CheckZombies(out) ==
    /\ script = "health"
    /\ health_pc = "zombies"
    /\ health_status' =
           IF out = <<>> THEN health_status
           ELSE Graded(health_status, "zombie_processes", out[1], FALSE,
                       out[1] > 10)
    /\ health_pc' = "services"
    /\ UNCHANGED <<running_services, script, NotHealth>>

\* one pass of `for service in critical_services`
CheckService(status) ==
    /\ script = "health"
    /\ health_pc = "services"
    /\ Len(running_services) < Len(critical_services)
    /\ LET service == critical_services[Len(running_services) + 1]
       IN  /\ running_services' = Append(running_services,
                  [service |-> service, status |-> status,
                   running |-> status = "active"])
           /\ health_status' =
                  IF status # "active" THEN Critical(health_status, service)
                  ELSE health_status
    /\ UNCHANGED <<health_pc, script, NotHealth>>

\* health_status['services'] = running_services; return health_status
HealthReturns ==
    /\ script = "health"
    /\ health_pc = "services"
    /\ Len(running_services) = Len(critical_services)
    /\ health_status' = [health_status EXCEPT !.services = running_services]
    /\ health_pc' = "done"
    /\ UNCHANGED <<running_services, script, NotHealth>>

-----------------------------------------------------------------------------
(* The batch scripts and the sampler of PerformanceTester *)

NoUsers == [u \in UserIds |-> NewUser]
NoTasks == [t \in TaskIds |-> [pc |-> "created", result |-> <<>>]]

\* LoadTester.__init__
NewResults ==
    [requests |-> 0, successes |-> 0, failures |-> 0,
     response_times |-> <<>>, errors |-> <<>>]

\* every script as constructed, nothing launched
Constructed ==
    /\ suite_pc = "idle"
    /\ users = NoUsers
    /\ concurrency_results = <<>>
    /\ simple_pc = "idle"
    /\ tasks = NoTasks
    /\ simple_results = <<>>
    /\ metrics = <<>>
    /\ load_pc = "idle"
    /\ auth = [u \in LoadUserIds |-> [pc |-> "created", token |-> None]]
    /\ tokens = <<>>
    /\ sims = <<>>
    /\ results = NewResults
    /\ response_statuses = <<>>
    /\ report = <<>>
    /\ reported = <<>>
    /\ session_pc = "idle"
    /\ sessions = NoSessions
    /\ run_pc = "running"
    /\ run_results = <<>>
    /\ executed = <<>>
    /\ report_file = <<>>
    /\ rec_pc = "input"
    /\ recommendations = <<>>
    /\ GateConstructed
    /\ ServerConstructed
    /\ WsConstructed
    /\ HealthConstructed

Init ==
    /\ script \in {"suite", "simple", "api"}
    /\ Constructed
    /\ latencies = <<>>
    /\ rec_input = <<>>

Next ==
    \/ LaunchUsers
    \/ \E u \in UserIds : Register(u)
    \/ \E u \in UserIds : RequestAnswered(u)
    \/ \E u \in UserIds : RequestFailed(u)
    \/ \E u \in UserIds : UserRaises(u)
    \/ GatherAndAggregate
    \/ LaunchRequests
    \/ \E t \in TaskIds : EndpointAnswered(t)
    \/ \E t \in TaskIds : EndpointFailed(t)
    \/ GatherAndSummarize
    \/ MeasureAnswered
    \/ MeasureFailed

Spec == Init /\ [][Next]_vars

-----------------------------------------------------------------------------
(* LoadTester.run_load_test *)

InitLoad ==
    /\ script = "load"
    /\ Constructed
    /\ latencies = <<>>
    /\ rec_input = <<>>

NextLoad ==
    \/ StartAuth
    \/ \E u \in LoadUserIds : FirstLogin(u)
    \/ \E u \in LoadUserIds : RegisterUser(u)
    \/ \E u \in LoadUserIds : SecondLogin(u)
    \/ AuthDone
    \/ \E i \in SimIds : SimAnswered(i)
    \/ \E i \in SimIds : SimCounted(i)
    \/ \E i \in SimIds : SimFailed(i)
    \/ SimDoneAndPrint

SpecLoad == InitLoad /\ [][NextLoad]_vars

-----------------------------------------------------------------------------
(* The percentile of a latency list, as the three scripts report it *)

\* the latency lists tried: n samples in the arrival order i -> (a * i) mod m
LatencyLists ==
    {[i \in 1 .. n |-> ((a * i) % m) + 1] :
        n \in 0 .. MaxLen, a \in {1, 7, 12}, m \in {3, 11, 25}}

\* what an aggregation reports for the list: the index int(p * N) it reads
\* and the value it finds there
PercentileReport(list) ==
    [n   |-> Len(list),
     i95 |-> PercentileIndex(95, Len(list)),
     i99 |-> PercentileIndex(99, Len(list)),
     p95 |-> Percentile(list, 95),
     p99 |-> Percentile(list, 99)]

ReportPercentiles ==
    /\ script = "percentile"
    /\ Len(reported) < 2
    /\ (Len(reported) = 1 => reported[1].order # latencies)
    /\ reported' = Append(reported, [order |-> latencies] @@ PercentileReport(latencies))
    /\ UNCHANGED <<script, latencies, NotPct>>

\* the same samples in another arrival order: two of them change places
SwapSamples(i, j) ==
    /\ script = "percentile"
    /\ Len(reported) = 1
    /\ reported[1].order = latencies
    /\ i < j
    /\ latencies' = [latencies EXCEPT ![i] = latencies[j], ![j] = latencies[i]]
    /\ UNCHANGED <<script, reported, NotPct>>

InitPercentile ==
    /\ script = "percentile"
    /\ Constructed
    /\ latencies \in LatencyLists
    /\ rec_input = <<>>

NextPercentile ==
    \/ ReportPercentiles
    \/ \E i, j \in 1 .. MaxLen :
          i <= Len(latencies) /\ j <= Len(latencies) /\ SwapSamples(i, j)

SpecPercentile == InitPercentile /\ [][NextPercentile]_vars

-----------------------------------------------------------------------------
(* Properties of LoadTester *)

LoadRunOver == script = "load" /\ load_pc \in {"printed", "print_raised", "returned_early"}

\* the latencies of the requests answered with a status below 400
SuccessfulTimes ==
    LET Keep(i) == response_statuses[i] < 400
        Picked == {i \in 1 .. Len(results.response_times) : Keep(i)}
        Pick[i \in 0 .. Len(results.response_times)] ==
            IF i = 0 THEN <<>>
            ELSE IF i \in Picked THEN Append(Pick[i - 1], results.response_times[i])
            ELSE Pick[i - 1]
    IN  Pick[Len(results.response_times)]

\* C6: a percentile that print_results reports is the percentile of the
\* successful requests' latencies: no failed sample contributes to it.
C6_PercentileOverSuccessesOnly ==
    (report # <<>> /\ report[1].has_times) =>
        /\ report[1].p95 = Percentile(SuccessfulTimes, 95)
        /\ report[1].p99 = Percentile(SuccessfulTimes, 99)

\* C8: the requests-per-second figure is successes / duration, never
\* negative, and 0 exactly when duration <= 0 or no request succeeded.
C8_ThroughputIsSuccessesPerSecond ==
    report # <<>> =>
        LET r == report[1] IN
        /\ r.duration > 0 => RatEq(r.requests_per_sec, Rat(r.successful, r.duration))
        /\ r.requests_per_sec.num >= 0
        /\ (r.requests_per_sec.num = 0) <=> (r.duration <= 0 \/ r.successful = 0)

\* C10: when the run is over, every one of the num_users users has run its
\* request cycles, authenticated or not, and they are all in the totals.
C10_AuthFailureKeepsSession ==
    LoadRunOver =>
        /\ Len(sims) = NumUsers
        /\ \A i \in DOMAIN sims : sims[i].cycles = CyclesPerUser
        /\ results.requests = NumUsers * CyclesPerUser

-----------------------------------------------------------------------------
(* Properties of the percentile *)

\* floor(pct * n / 100), stated without division
FloorIndex(pct, n) ==
    CHOOSE k \in 0 .. n : 100 * k <= pct * n /\ pct * n < 100 * (k + 1)

Below(v) == Cardinality({i \in 1 .. Len(latencies) : latencies[i] < v})
AtMost(v) == Cardinality({i \in 1 .. Len(latencies) : latencies[i] <= v})

\* v is the element at 0-based index k of the list sorted ascending
IsRanked(v, k) == Below(v) <= k /\ k < AtMost(v)

\* C7: for a list of N >= 1 latencies the reported p95 and p99 are the
\* elements at index floor(p * N) of the list sorted ascending, that index
\* is within 0..N-1, the result is the same for another order of the same
\* samples, and for an empty list the percentile is 0.
C7_NearestRankPercentile ==
    /\ \A r \in 1 .. Len(reported) :
          LET rep == reported[r] IN
          IF rep.n = 0
          THEN rep.p95 = 0 /\ rep.p99 = 0
          ELSE /\ rep.i95 = FloorIndex(95, rep.n) /\ rep.i95 \in 0 .. (rep.n - 1)
               /\ rep.i99 = FloorIndex(99, rep.n) /\ rep.i99 \in 0 .. (rep.n - 1)
               /\ IsRanked(rep.p95, rep.i95)
               /\ IsRanked(rep.p99, rep.i99)
    /\ Len(reported) = 2 =>
          /\ reported[1].p95 = reported[2].p95
          /\ reported[1].p99 = reported[2].p99

\* a list long enough for the p95 not to be its maximum, reported in two
\* different orders
C7_Witness ==
    /\ Len(reported) = 2
    /\ reported[1].order # reported[2].order
    /\ reported[2].n > 20
    /\ reported[2].p95 < reported[2].p99

-----------------------------------------------------------------------------
(* Properties of the batch scripts *)

Finished == {"returned", "raised"}

SuiteAggregated == script = "suite" /\ suite_pc = "aggregated"
SimpleAggregated == script = "simple" /\ simple_pc = "aggregated"

\* the batch result of the phase
Batch == concurrency_results[Len(concurrency_results)]
Summary == simple_results[1]

RaisedUsers == {u \in UserIds : users[u].pc = "raised"}
ReturnedUsers == {u \in UserIds : users[u].pc = "returned"}

\* every request made by a task that returned: <<user_id, cycle>>
Requests == {ui \in UserIds \X (1 .. requests_per_user) :
                 ui[2] <= Len(users[ui[1]].response_times)}
LatencyOf(ui) == users[ui[1]].response_times[ui[2]]
StatusOf(ui) == users[ui[1]].statuses[ui[2]]
SentinelRequests == {ui \in Requests : LatencyOf(ui) = SENTINEL}
ErrorStatusRequests == {ui \in Requests : StatusOf(ui) >= 400}

\* C1: the batch metrics of test_concurrent_users and test_concurrent_load
\* exist only in states where every launched actor has returned or raised.
C1_AggregateAfterAllActors ==
    /\ (concurrency_results # <<>> => \A u \in UserIds : users[u].pc \in Finished)
    /\ (simple_results # <<>> => \A t \in TaskIds : tasks[t].pc \in Finished)

\* a batch aggregated after one actor raised and another returned
C1_Witness ==
    /\ SuiteAggregated
    /\ RaisedUsers # {}
    /\ ReturnedUsers # {}

C3_FailedSampleHasSentinel ==
    /\ \A i \in 1 .. Len(metrics) :
          metrics[i].raised =>
              metrics[i].response_time_ms = SENTINEL /\ metrics[i].status_code = 0
    /\ \A t \in TaskIds :
          (tasks[t].result # <<>> /\ tasks[t].result[1].error) =>
              /\ ~tasks[t].result[1].success
              /\ tasks[t].result[1].response_time_ms = SENTINEL
              /\ tasks[t].result[1].status_code = 0

\* C4: a request answered with a status outside 2xx/3xx is a failed request
\* of its batch: in blast mode the sample is unsuccessful and counted in
\* failed_requests, in session mode it is not among successful_requests.
C4_ErrorStatusCountedFailed ==
    /\ SimpleAggregated =>
          /\ \A t \in TaskIds :
                tasks[t].result[1].status_code >= 400 => ~tasks[t].result[1].success
          /\ Summary.failed_requests >=
                Cardinality({t \in TaskIds : tasks[t].result[1].status_code >= 400})
    /\ SuiteAggregated =>
          /\ Batch.failed_requests >= Cardinality(ErrorStatusRequests)
          /\ Batch.successful_requests <= Cardinality(Requests \ ErrorStatusRequests)

\* C5: a batch with no successful request has avg, min, max and p95 latency 0
\* and throughput 0.
C5_NoSuccessAllZero ==
    /\ (SuiteAggregated /\ Batch.successful_requests = 0) =>
          /\ Batch.avg_response_time_ms.num = 0
          /\ Batch.min_response_time_ms = 0
          /\ Batch.max_response_time_ms = 0
          /\ Batch.p95_response_time_ms = 0
          /\ Batch.throughput_rps.num = 0
    /\ (SimpleAggregated /\ Summary.successful_requests = 0) =>
          /\ Summary.avg_response_time_ms.num = 0
          /\ Summary.min_response_time_ms = 0
          /\ Summary.max_response_time_ms = 0
          /\ Summary.p95_response_time_ms = 0
          /\ Summary.requests_per_second.num = 0

\* C9: in every batch of test_concurrent_users with total_requests > 0,
\* successful_requests + failed_requests = total_requests = users x
\* requests_per_user, and error rate + success rate = 100.
C9_CountsAddUp ==
    (SuiteAggregated /\ Batch.total_requests > 0) =>
        /\ Batch.total_requests = UserCount * requests_per_user
        /\ Batch.successful_requests + Batch.failed_requests = Batch.total_requests
        /\ RatEq(RatAdd(Batch.error_rate_percent,
                        Rat(Batch.successful_requests * 100, Batch.total_requests)),
                 Rat(100, 1))

\* a batch mixing a raised actor, a failed request and a successful one
C9_Witness ==
    /\ SuiteAggregated
    /\ RaisedUsers # {}
    /\ SentinelRequests # {}
    /\ Requests \ SentinelRequests # {}
    /\ Batch.total_requests > 0

-----------------------------------------------------------------------------
(* The sessions of one batch *)

InitSession ==
    /\ script \in {"suite", "load"}
    /\ Constructed
    /\ latencies = <<>>
    /\ rec_input = <<>>

SessionStep(u) ==
    \/ SessionRegistered(u)
    \/ Dispatch(u)
    \/ Responded(u)
    \/ Excepted(u)
    \/ Paced(u)
    \/ SessionRaises(u)

NextSession ==
    \/ StartSessions
    \/ \E u \in SessionIds : SessionStep(u)
    \/ JoinSessions

SpecSession == InitSession /\ [][NextSession]_vars

\* the event loop resumes every task that is ready, every request returns
\* or is ended by the session's ClientTimeout(total=30), every sleep elapses
SpecSessionFair == SpecSession /\ WF_vars(NextSession)

\* C11: in one session request k+1 is dispatched only after request k has
\* completed and its pacing sleep has elapsed: at most one request of a
\* session is pending, and the requests sent never exceed the sleeps elapsed
\* by more than one.
C11_SessionSequential ==
    \A u \in SessionIds :
        LET s == sessions[u] IN
        /\ s.dispatched <= s.completed + 1
        /\ s.dispatched <= s.paced + 1
        /\ s.paced <= s.completed
        /\ (s.pc = "in_flight") <=> (s.dispatched = s.completed + 1)

\* two sessions with a request pending at once, the second a cycle ahead
C11_Witness ==
    /\ sessions[0].pc = "in_flight" /\ sessions[0].dispatched = 1
    /\ sessions[1].pc = "in_flight" /\ sessions[1].dispatched = 2

\* C12: every session ends, a session that returned ran exactly its n
\* request cycles whatever the outcomes of its requests, and the gather of
\* the sessions eventually returns.
C12_SessionsTerminate ==
    /\ [](\A u \in SessionIds :
            sessions[u].pc = "returned" =>
                /\ sessions[u].dispatched = SessionCycles
                /\ sessions[u].completed = SessionCycles
                /\ sessions[u].paced = SessionCycles)
    /\ <>[](session_pc = "joined")

\* the batch joined after a session whose requests all raised and one whose
\* requests were all answered
C12_Witness ==
    /\ session_pc = "joined"
    /\ \E u, v \in SessionIds :
          /\ sessions[u].pc = "returned" /\ sessions[u].failed = SessionCycles
          /\ sessions[v].pc = "returned" /\ sessions[v].failed = 0

-----------------------------------------------------------------------------
(* The run of a script's phases *)

InitRun ==
    /\ script \in {"simple", "suite", "database", "monitor"}
    /\ Constructed
    /\ latencies = <<>>
    /\ rec_input = <<>>

NextRun ==
    \/ PhaseCompletes
    \/ PhaseRaises
    \/ SaveReport

SpecRun == InitRun /\ [][NextRun]_vars

RunOver == run_pc \in {"done", "failed"}

\* a phase of the run raised
RunFailed ==
    \/ run_pc = "failed"
    \/ \E i \in 1 .. Len(run_results) : run_results[i].key = "error"

\* C13: a run in which a phase raised still writes its report file, and the
\* file holds every result the run had stored before the failure.
C13_PartialReportWritten ==
    (RunOver /\ RunFailed /\ executed # <<>>) =>
        /\ report_file # <<>>
        /\ \A i \in 1 .. Len(run_results) :
              \E j \in 1 .. Len(report_file[1]) : report_file[1][j] = run_results[i]

\* the load phases that completed, in execution order
RECURSIVE LoadPhasesOf(_)
LoadPhasesOf(log) ==
    IF log = <<>> THEN <<>>
    ELSE LET rest == LoadPhasesOf(SubSeq(log, 1, Len(log) - 1))
             last == log[Len(log)]
         IN  IF last.level > 0
             THEN Append(rest, [level |-> last.level,
                                failed_requests |-> last.failed_requests])
             ELSE rest

\* C16: the results held by the run have one entry per load phase executed
\* so far, in execution order: no later phase overwrites or removes one.
C16_PhasesAppendOnly ==
    script \in {"simple", "suite"} =>
        LoadPhasesOf(run_results) = LoadPhasesOf(executed)

-----------------------------------------------------------------------------
(* Properties of LoadTester's counters and summary *)

\* phase 2 ran: some user got a token and the simulated users were gathered
ReachedTarget == script = "load" /\ load_pc \in {"printed", "print_raised"}

\* C14: a load-test run that reached the target ends with print_results
\* printing the whole summary: it never raises, whatever the results hold.
C14_SummaryAlwaysPrinted ==
    ReachedTarget => load_pc = "printed"

RECURSIVE SumCycles(_)
SumCycles(n) == IF n = 0 THEN 0 ELSE SumCycles(n - 1) + sims[n].cycles

Releasing == {i \in DOMAIN sims : sims[i].pc = "releasing"}

\* C15: under every interleaving of the simulated users no update of the
\* shared counters is lost or doubled: requests counts every finished
\* cycle, successes + failures every outcome, response_times every answer,
\* and when the batch is over requests = successes + failures =
\* cycles per user x simulated users.
C15_CountersExact ==
    script = "load" =>
        /\ results.requests = SumCycles(Len(sims))
        /\ results.successes + results.failures =
              results.requests + Cardinality(Releasing)
        /\ Len(results.response_times) + Len(results.errors) =
              results.successes + results.failures
        /\ ReachedTarget =>
              /\ results.requests = results.successes + results.failures
              /\ results.requests = CyclesPerUser * Len(sims)

\* the batch is over after two users were suspended between their outcome
\* and their requests += 1 at once
C15_Witness ==
    /\ script = "load"
    /\ Len(sims) = NumUsers
    /\ \A i \in DOMAIN sims : sims[i].pc = "releasing" /\ sims[i].cycles = 1

-----------------------------------------------------------------------------
(* The recommendation generators, each applied to the results it is given *)

InitRecommend ==
    /\ Constructed
    /\ latencies = <<>>
    /\ \/ script = "analyze_results" /\ rec_input \in AnalyzeInputs
       \/ script = "generate_performance_report" /\ rec_input \in ReportInputs
       \/ script = "_generate_db_recommendations" /\ rec_input \in DbInputs
       \/ script = "_generate_index_recommendations" /\ rec_input \in IndexInputs
       \/ script = "analyze_cache_results" /\ rec_input \in CacheInputs

NextRecommend ==
    \/ AnalyzeResults
    \/ GeneratePerformanceReport
    \/ GenerateDbRecommendations
    \/ GenerateIndexRecommendations
    \/ RunCacheTests
    \/ AnalyzeCacheResults

SpecRecommend == InitRecommend /\ [][NextRecommend]_vars

Generated == rec_pc = "done"

\* the load phase the generator evaluates had at least one failed request
EvaluatedPhaseHasErrors ==
    CASE script = "analyze_results" ->
            rec_input.concurrent_load.failed_requests > 0
      [] script = "generate_performance_report" ->
            MaxUsersTest(rec_input.concurrency_results).error_rate_percent.num > 0
      [] script = "_generate_db_recommendations" ->
            LatestConcurrent(rec_input).failed_queries > 0
      [] OTHER -> FALSE

\* a HIGH recommendation whose issue is the failed requests of the phase
IsReliabilityHigh(rec) ==
    /\ rec.priority = "HIGH"
    /\ rec.issue \in {"failed requests", "error rate", "query failures"}

\* C17: when the load phase a generator evaluates has an error rate above 0,
\* its output holds a HIGH recommendation about the failed requests.
C17_ErrorsGiveHighReliability ==
    (Generated /\ EvaluatedPhaseHasErrors) =>
        \E i \in 1 .. Len(recommendations) : IsReliabilityHigh(recommendations[i])

HasCachingRecommendation ==
    \E i \in 1 .. Len(recommendations) : recommendations[i].category = "Caching"

\* C18: an endpoint with a cold average of 200 ms and a warm average of
\* 150 ms has performance_improvement_percent = 25 and cache_likely_present,
\* and whenever an endpoint improved by more than 20% the analysis holds a
\* recommendation of category Caching.
C18_ImprovementGivesCachingRec ==
    (script = "analyze_cache_results" /\ Generated) =>
        \A e \in DOMAIN rec_input :
            ~rec_input[e].error =>
                LET p == rec_input[e].performance[1] IN
                /\ (RatEq(p.cold_cache_avg_ms, Whole(200))
                        /\ RatEq(p.warm_cache_avg_ms, Whole(150))) =>
                      /\ RatEq(p.performance_improvement_percent, Whole(25))
                      /\ p.cache_likely_present
                /\ RatLess(Whole(20), p.performance_improvement_percent) =>
                      HasCachingRecommendation

\* the rules of the generator that ran, in the order of its code, each with
\* whether its condition holds for the input
Rule(holds, rec) == [holds |-> holds, rec |-> rec]

TableRules(stat) ==
    LET seq_scan == OrZero(stat.seq_scan)
        idx_scan == OrZero(stat.idx_scan)
    IN  << Rule(seq_scan > 0 /\ idx_scan > 0 /\ RatioAbove70(seq_scan, idx_scan),
                Rec("Indexing", "", "high sequential scan ratio", stat.table_name)),
           Rule(seq_scan > 100 /\ idx_scan = 0,
                Rec("Indexing", "", "only sequential scans", stat.table_name)) >>

CacheCounts ==
    LET working == SelectSeq(rec_input, HasNoError) IN
    [cached |-> Len(SelectSeq(working, LikelyCached)), total |-> Len(working),
     avg |-> SummaryAvg(working)]

RuleTable ==
    CASE script = "analyze_results" ->
            << Rule(ResponseTimeHigh(rec_input),
                    Rec("Response Time", "HIGH", "average response time", "")),
               Rule(ThroughputLow(rec_input), Rec("Throughput", "MEDIUM", "throughput", "")),
               Rule(HasFailedRequests(rec_input),
                    Rec("Reliability", "HIGH", "failed requests", "")),
               Rule(SensitiveAccessible(rec_input),
                    Rec("Security", "HIGH", "admin paths accessible", "")) >>
      [] script = "generate_performance_report" ->
            << Rule(SlowEndpoints(rec_input),
                    Rec("API Performance", "HIGH", "slow endpoints", "")),
               Rule(HighErrorRate(rec_input), Rec("Scalability", "HIGH", "error rate", "")),
               Rule(LowThroughput(rec_input), Rec("Throughput", "MEDIUM", "throughput", "")) >>
      [] script = "_generate_db_recommendations" ->
               << Rule(rec_input.connection_performance.avg_connection_time_ms > 100,
                       Rec("Connection Performance", "MEDIUM", "connection time", "")),
                  Rule(SelectSeq(rec_input.basic_queries, IsSlowQuery) # <<>>,
                       Rec("Query Performance", "HIGH", "slow basic queries", "")),
                  Rule(RatLess(LatestConcurrent(rec_input).queries_per_second, Whole(100)),
                       Rec("Scalability", "HIGH", "throughput", "")),
                  Rule(LatestConcurrent(rec_input).failed_queries > 0,
                       Rec("Reliability", "HIGH", "query failures", "")) >>
            \o [i \in 1 .. Len(rec_input.index_recommendations) |->
                  Rule(TRUE, IndexOptimizations(rec_input.index_recommendations)[i])]
      [] script = "_generate_index_recommendations" ->
               TableRules(rec_input.table_stats[1])
            \o TableRules(rec_input.table_stats[2])
            \o << Rule(SelectSeq(rec_input.indexes, IsUnused) # <<>>,
                       Rec("Indexing", "", "unused indexes", "")) >>
      [] script = "analyze_cache_results" ->
            << Rule(NoCacheEvidence(CacheCounts.cached, CacheCounts.total),
                    Rec("Caching", "HIGH", "no cache evidence", "")),
               Rule(FewCached(CacheCounts.cached, CacheCounts.total),
                    Rec("Caching", "MEDIUM", "few endpoints cached", "")),
               Rule(SlowAverage(CacheCounts.avg),
                    Rec("Performance", "MEDIUM", "average response time", "")) >>
      [] OTHER -> <<>>

RuleHolds(rule) == rule.holds

\* the recommendations of the rules whose condition holds, in rule order
Fired(table) ==
    LET firing == SelectSeq(table, RuleHolds) IN
    [i \in 1 .. Len(firing) |-> firing[i].rec]

\* C19: the output of a generator is exactly the recommendations of the
\* rules whose condition holds, in rule order: a rule that fired never keeps
\* another rule's recommendation out.
C19_RulesIndependent ==
    Generated => recommendations = Fired(RuleTable)

\* an Indexing recommendation that names the table
HasIndexRecommendation(table_name) ==
    \E i \in 1 .. Len(recommendations) :
        /\ recommendations[i].category = "Indexing"
        /\ recommendations[i].subject = table_name

\* C20: a table with scans whose sequential-scan ratio is above 70% gets an
\* indexing recommendation, and a table whose ratio is at most 70% gets none.
C20_SeqScanRatioRule ==
    (script = "_generate_index_recommendations" /\ Generated) =>
        \A t \in DOMAIN rec_input.table_stats :
            LET stat == rec_input.table_stats[t]
                seq_scan == OrZero(stat.seq_scan)
                idx_scan == OrZero(stat.idx_scan)
            IN  seq_scan + idx_scan > 0 =>
                    (RatioAbove70(seq_scan, idx_scan)
                        <=> HasIndexRecommendation(stat.table_name))

-----------------------------------------------------------------------------
(* The readiness gates *)

InitGate ==
    /\ script \in {"game", "verification", "spider"}
    /\ Constructed
    /\ latencies = <<>>
    /\ rec_input = <<>>

NextGate ==
    \/ \E outcome \in TestOutcomes : GameTest(outcome)
    \/ GameTesterExits
    \/ \E outcome \in {"pass", "fail", "error"} : VerificationSuite(outcome)
    \/ VerificationExits
    \/ SpiderRuns
    \/ \E outcome \in UrlOutcomes, links \in SUBSET LinkTargets :
           CheckPage(outcome, links)
    \/ \E link \in LinkTargets, outcome \in UrlOutcomes :
           CheckResource(link, outcome)
    \/ \E outcome \in UrlOutcomes : CheckFile(outcome)
    \/ \E outcome \in PostOutcomes : PostChecks(outcome)
    \/ \E level \in {"PASS", "WARN"} : TestWebsocket(level)
    \/ SpiderExits
    \/ SpiderRaises

SpecGate == InitGate /\ [][NextGate]_vars


\* the script has exited
Exited == gate_pc = "exited"

\* a check of the run did not pass: a test recorded as FAIL (GameTester), a
\* name in results['failed'] (run_verification), a check the spider logged
\* at level FAIL or recorded as an issue
AnyCheckFailed ==
    \/ script = "game" /\ \E i \in DOMAIN test_results : test_results[i].status = "FAIL"
    \/ script = "verification" /\ verified.failed # <<>>
    \/ script = "spider"
       /\ (issues # <<>> \/ \E i \in DOMAIN logged : logged[i] = "FAIL")

\* C21: a readiness gate exits with code 0 only when every check passed; a
\* run in which at least one check failed exits with a nonzero code
C21_ExitZeroOnlyIfAllPassed ==
    (Exited /\ AnyCheckFailed) => exit_code # <<0>>

\* the same for run_verification alone
VerificationGateSound ==
    (script = "verification" /\ Exited /\ AnyCheckFailed) => exit_code # <<0>>

\* C28: after test_frontend_pages, working_pages is the number of listed
\* pages whose GET returned status 200
PagesAnswered200 ==
    {i \in DOMAIN pages :
        <<Url(frontend_base, pages[i]), <<"response", 200>>>> \in fetched}
C28_WorkingPagesCountsOkPages ==
    (script = "spider" /\ gate_pc # "pages")
        => working_pages = Cardinality(PagesAnswered200)

-----------------------------------------------------------------------------
(* The secure server: its request threads and its clock *)

InitServer ==
    /\ script = "server"
    /\ Constructed
    /\ latencies = <<>>
    /\ rec_input = <<>>

\* register() is followed access by access to users_db and game_state; the
\* other handlers are taken in one piece
RegisterStep(t) ==
    \/ \E data \in RegisterBodies : RegisterReceives(t, data)
    \/ RegisterNumbers(t)
    \/ RegisterStores(t)
    \/ RegisterAnswers(t)

NextServer ==
    \/ \E t \in Threads : RegisterStep(t)
    \/ \E data \in LoginBodies : Login(data)
    \/ \E route \in ProtectedRoutes \ {"/api/logout"}, header \in Headers :
           \E body \in BodiesOf(route) : Request(route, header, body)
    \/ \E header \in Headers : Logout(header)
    \/ Tick

SpecServer == InitServer /\ [][NextServer]_vars

\* two clients register at the same time
InitRegistering ==
    /\ script = "registering"
    /\ Constructed
    /\ latencies = <<>>
    /\ rec_input = <<>>

NextRegistering == \E t \in Threads : RegisterStep(t)

SpecRegistering == InitRegistering /\ [][NextRegistering]_vars


\* the response just sent, if it is one of a protected route
ProtectedAnswer ==
    /\ answered # <<>>
    /\ answered[1].route \in ProtectedRoutes

C27_RevokedTokenRejected ==
    (ProtectedAnswer /\ answered[1].observed[2]) => answered[1].status = 401

\* C23: a registration answered 201 added a key to users_db, and the id it
\* gave the user (the key of the user's private game state) is no other
\* user's; a registration answered 400 ran nothing of the handler
C23_CreatedAddsOneUser ==
    (answered # <<>> /\ answered[1].route = "/api/register") =>
        \/ answered[1].status = 201 /\ answered[1].observed = <<TRUE, TRUE>>
        \/ answered[1].status = 400 /\ ~answered[1].ran


InitWs ==
    /\ script = "websocket"
    /\ Constructed
    /\ latencies = <<>>
    /\ rec_input = <<>>

NextWs ==
    \/ \E c \in Conns, data \in WsMessages : Receives(c, data)
    \/ \E c \in Conns : AuthSent(c)
    \/ \E c \in Conns : UserFailed(c)
    \/ \E t \in Coroutines : BroadcastResumes(t)
    \/ \E c \in Conns : Finally(c)
    \/ periodic_updates
    \/ \E c \in Conns : Disconnects(c)

SpecWs == InitWs /\ [][NextWs]_vars


\* the user ids that occur in a list of game_rooms
RoomMembers ==
    {u \in WsUsers : \E r \in DOMAIN game_rooms : InRoom(game_rooms[r], u)}

\* the connections whose handler has finished after it authenticated as a
\* user that no other connection holds or is authenticating as
GoneUsers ==
    {handlers[c].user_id[1] : c \in
        {c \in Conns :
            /\ handlers[c].pc = "finished"
            /\ handlers[c].user_id # <<>>
            /\ \A d \in Conns \ {c} :
                  /\ handlers[d].user_id # handlers[c].user_id
                  /\ handlers[d].pending # handlers[c].user_id[1]}}

\* C24: the user of a connection whose handler has finished is no key of
\* connected_clients and a member of no room
C24_NoTraceAfterDisconnect ==
    \A u \in GoneUsers : u \notin Keys(connected_clients) /\ u \notin RoomMembers

\* C25: a connection that has authenticated and is still open has its user
\* id among the keys of connected_clients
C25_OpenAuthenticatedRegistered ==
    \A c \in Conns :
        (handlers[c].user_id # <<>> /\ c \notin closed) =>
            handlers[c].user_id[1] \in Keys(connected_clients)

\* C26: no broadcast_to_all has raised, whatever ran while it awaited a send
C26_BroadcastCompletes == ws_errors = {}


\* C29: every ConcurrencyTestResult has min <= avg <= max and
\* min <= p95 <= max
C29_ResultOrdered ==
    \A i \in 1 .. Len(concurrency_results) :
        LET res == concurrency_results[i]
        IN  /\ ~RatLess(res.avg_response_time_ms, Whole(res.min_response_time_ms))
            /\ ~RatLess(Whole(res.max_response_time_ms), res.avg_response_time_ms)
            /\ res.min_response_time_ms <= res.p95_response_time_ms
            /\ res.p95_response_time_ms <= res.max_response_time_ms

InitHealth ==
    /\ script = "health"
    /\ Constructed
    /\ latencies = <<>>
    /\ rec_input = <<>>

NextHealth ==
    \/ \E out \in DiskOutputs : CheckDisk(out)
    \/ \E out \in MemoryOutputs : CheckMemory(out)
    \/ \E out \in LoadOutputs, cpu_cores \in CoreCounts : CheckLoad(out, cpu_cores)
    \/ \E out \in ZombieOutputs : CheckZombies(out)
    \/ \E status \in ServiceStatuses : CheckService(status)
    \/ HealthReturns

SpecHealth == InitHealth /\ [][NextHealth]_vars

\* the status the two lists of health_status call for
StatusCalledFor(hs) ==
    IF hs.critical_issues # <<>> THEN "CRITICAL"
    ELSE IF hs.warnings # <<>> THEN "WARNING"
    ELSE "HEALTHY"

\* C30: after every step of check_system_health the status is CRITICAL
\* exactly when critical_issues is not empty, WARNING exactly when only
\* warnings is not empty, HEALTHY exactly when both are empty; and a status
\* that is CRITICAL stays CRITICAL
C30_StatusFollowsIssues ==
    [][/\ health_status'.overall_status = StatusCalledFor(health_status')
       /\ health_status.overall_status = "CRITICAL" =>
              health_status'.overall_status = "CRITICAL"]_vars

\* the call returned CRITICAL after a check had added a warning to a status
\* that was CRITICAL already
C30_WarningAfterCritical ==
    /\ health_pc = "done"
    /\ health_status.overall_status = "CRITICAL"
    /\ health_status.critical_issues = <<"disk_usage_percent">>
    /\ health_status.warnings = <<"memory_usage_percent", "zombie_processes">>

=============================================================================
